---------------------------- MODULE Spec2Model ----------------------------
(***************************************************************************)
(* A model of the Playwright scripts of login-automation/tests:            *)
(*   create_vr.spec.ts  (lines 1-2854: cookie helpers, selectDropdownOption,*)
(*                       test 'Create Verification Request',               *)
(*                       fillVerificationForm, createVerificationRequest)   *)
(*   login.spec.ts      (generateRandomPhoneNumber, test 'Login and        *)
(*                       complete applicant details')                      *)
(*                                                                         *)
(* A script is a sequential program: pc is the statement it stands at.     *)
(* The web application is the environment: every awaited page operation    *)
(* either resolves or throws, and a navigation leaves the page on one of a *)
(* few classes of URL.  The page and its browser context stay open for the *)
(* whole run, so the pure timers (waitForTimeout), page.pause(), the debug *)
(* reads that do not wait for an element (count, allTextContents) and the  *)
(* synchronous page.url() always resolve.                                  *)
(*                                                                         *)
(* Spec runs the two tests with the page handlers as single steps.         *)
(* SpecPages runs one page function at a time, statement by statement:     *)
(* automateLOAPage, handleReportTransferPage, handleVerifyEducationPage,   *)
(* the checkbox step of fillVerificationForm, handleEducationDetailsPage,  *)
(* handleDegreeDiplomaPage with its helpers, and selectDropdownOption of   *)
(* login.spec.ts.  SpecSdo, SpecCookies and SpecPhone do the same for      *)
(* selectDropdownOption of create_vr.spec.ts, the cookie helpers and       *)
(* generateRandomPhoneNumber.                                              *)
(***************************************************************************)
EXTENDS Integers, Sequences, FiniteSets, TLC

VARIABLES
    test,        \* the script that runs: "create_vr", "login", or a harness
    pc,          \* the statement the script stands at
    err,         \* the error the test ended with ("none" while it has none)
    url,         \* the class of the URL the page is on
    inFlight,    \* the page operations issued and not yet settled
    file,        \* cookies.json: NoFile, Corrupt or a snapshot record
    ctx,         \* the cookies of the browser context
    now,         \* Date.now(), in milliseconds
    savedEmail,  \* what loadCookies returned (Null for null)
    addCookies,  \* the outcome of loadCookies' addCookies call: none, ok, threw
    saved,       \* the arguments of the last completed saveCookies (NotSaved before)
    cvrSite,     \* the call site createVerificationRequest was entered from
    cvrCalls,    \* how often createVerificationRequest was entered
    cvrErr,      \* the error the current createVerificationRequest threw
    handlers,    \* the page handlers the current createVerificationRequest called
    sdoSite,     \* the call site selectDropdownOption was entered from
    testId,      \* selectDropdownOption's testId argument
    sdoLog,      \* the strategies the current selectDropdownOption tried
    optionClicked, \* selectDropdownOption's local optionClicked
    selIdx,      \* index of the Strategy B selector under trial
    sdoRet,      \* what the last selectDropdownOption returned
    sdoEvents,   \* the current selectDropdownOption clicked the dropdown, paused
    secondDropdownReady, \* fillVerificationForm: let secondDropdownReady
    attempts,    \* fillVerificationForm: let attempts
    selection,   \* createVerificationRequest, per selection step: none, trying, ok, failed
    returned,    \* the page handlers that have returned in the current createVerificationRequest
    payment,     \* what paypalPg has done: filled the card data, clicked submit
    idLog,       \* the identity page: pauses, the end of fillIdentityFormDetails,
                 \* entries and clicks of saveAndContinueIdentity, in order
    stepOutcome, \* per fallback step: none, pending (exhausted), paused, threw, continued
    loginChecked,\* the logged-in check of the cookie path passed
    freshOps,    \* the operations of the fresh-login flow executed so far
    wrote,       \* saveCookies wrote the snapshot file in this run
    verified,    \* the outcome of expect(page).toHaveURL(/.*dashboard.*/)
    rand,        \* the outcomes Math.random() will produce, in order
    phoneNumber, \* login.spec.ts: const phoneNumber
    filled,      \* the value last filled into the phone field
    otpLog,      \* login.spec.ts: the operations of the OTP loop, in order
    i,           \* login.spec.ts: the loop index of the OTP loop
    checkboxSelected, \* login.spec.ts: let checkboxSelected
    shots,       \* the screenshots taken
    redirectedUrl, \* login.spec.ts: const redirectedUrl (Null before line 97)
    touched,     \* the applicant-details form operations executed
    page,        \* what the page shows to the function under study
    locals,      \* the local variables of the function under study
    acts,        \* the page actions the function under study has issued, in order
    result       \* how it ended: running, returned, or the message it threw

vars == <<test, pc, err, url, inFlight, file, ctx, now, savedEmail, addCookies, saved, cvrSite,
          cvrCalls, cvrErr, handlers, sdoSite, testId, sdoLog, optionClicked,
          selIdx, sdoRet, sdoEvents, secondDropdownReady, attempts, selection, returned, payment, idLog,
          stepOutcome, loginChecked, freshOps, wrote, verified,
          rand, phoneNumber, filled, otpLog, i, checkboxSelected, shots,
          redirectedUrl, touched, page, locals, acts, result>>

pageVars   == <<page, locals, acts, result>>
cookieVars == <<file, ctx, now, savedEmail, addCookies, saved>>
cvrVars    == <<cvrSite, cvrCalls, cvrErr, handlers>>
sdoVars    == <<sdoSite, testId, sdoLog, optionClicked, selIdx, sdoRet, sdoEvents>>
fvfVars    == <<secondDropdownReady, attempts>>
flowVars   == <<selection, returned, payment, idLog>>
vrGhost    == <<loginChecked, freshOps, wrote, verified>>
loginVars  == <<rand, phoneNumber, filled, otpLog, i, checkboxSelected, shots,
                redirectedUrl, touched>>

-----------------------------------------------------------------------------
(* Bounds of the model *)

\* Math.random() is modelled as k / RandSteps for k in 0 .. RandSteps-1
RandSteps == 2

-----------------------------------------------------------------------------
(* Values *)

Null    == "null"
NoFile  == [ kind |-> "none" ]       \* cookies.json does not exist
Corrupt == [ kind |-> "corrupt" ]    \* cookies.json is not valid JSON
NotSaved == [ kind |-> "none" ]      \* saveCookies has not completed yet
NoPage   == [ on |-> "none" ]        \* no function is under study
NoLocals == [ fn |-> "none" ]

specificEmail == "ndarshan+story47@dataflowgroup.com"
OtherEmail    == "someone.else@dataflowgroup.com"

\* the cookie lists a browser context can hold in the model
CookieLists == { {}, {"session"}, {"session", "csrf"} }

\* create_vr.spec.ts:26   const maxAge = 24 * 60 * 60 * 1000
maxAge == 24 * 60 * 60 * 1000

\* the ages (now - timestamp) a snapshot can have when it is loaded
Ages == { 0, maxAge - 1, maxAge, maxAge + 1, 2 * maxAge }

\* the instant the snapshots of the initial states were written
T0 == 1000

Snapshots == [ kind : {"snapshot"},
               email : {specificEmail, OtherEmail},
               cookies : CookieLists \ {{}},
               timestamp : {T0} ]

\* URL classes
Urls == { "blank", "signin", "otp", "about", "dashboard_home", "home", "flow" }

\* String.includes('/dashboard')
IncludesDashboard(u) == u \in { "dashboard_home" }
\* String.includes('/home')
IncludesHome(u) == u \in { "dashboard_home", "home" }
\* the regular expression /.*dashboard.*/
MatchesDashboard(u) == u \in { "dashboard_home" }
\* String.includes('/verification/mobile')
IncludesVerificationMobile(u) == u = "otp"
\* String.includes('/onboarding/about-yourself')
IncludesAboutYourself(u) == u = "about"

Terminal == { "passed", "failed" }


-----------------------------------------------------------------------------
(* Sequencing of page operations *)

\* the statements that are not asynchronous page operations: the file and
\* clock reads of loadCookies, the synchronous page.url() of the catch block,
\* Math.random(), and the ends of a test
NonOps == Terminal \cup { "t_load", "t_check_url", "l_generate", "p_generate",
                          "d_call", "k_idle", "k_loaded", "h_call", "h_done" }

IsPageOp(l) == l \notin NonOps

\* every page operation of the scripts is awaited (a mutant awaits all but one)
AwaitedButConsent(l) == l # "f_consent"
Awaited(l) == TRUE

\* control passes to statement l: the awaited operation at pc has settled,
\* and the operation at l is issued
Goto(l) ==
    /\ pc' = l
    /\ inFlight' = (IF Awaited(pc) THEN inFlight \ {pc} ELSE inFlight)
                     \cup (IF IsPageOp(l) THEN {l} ELSE {})

\* an error leaves the test function: the test fails with it
Fail(m) == Goto("failed") /\ err' = m

-----------------------------------------------------------------------------
(* Fallback steps: what happened once every automated fallback had failed *)

CvrSteps   == { "startNewVerification", "bahrain", "nhra" }
PauseSteps == { "selectDropdownOption" }
LoginSteps == { "termsCheckbox" }
Steps      == CvrSteps \cup PauseSteps \cup LoginSteps

NoOutcome == [s \in Steps |-> "none"]

\* no selection step of createVerificationRequest has been attempted
NoSelection == [s \in CvrSteps |-> "none"]

\* a method of selection step s has run: it selected, or it failed and was
\* the last or not the last method of the step
Select(s, o) == selection' = [selection EXCEPT ![s] = o]

SetOutcome(s, o) == stepOutcome' = [stepOutcome EXCEPT ![s] = o]

-----------------------------------------------------------------------------
(* create_vr.spec.ts: cookie helpers *)

\* saveCookies stamping the snapshot with a time more than maxAge ago (a mutant)
saveCookiesStaleTimestamp(cookies, email, time) ==
    [ kind |-> "snapshot", email |-> email, cookies |-> cookies,
      timestamp |-> time - maxAge - 1 ]

\* saveCookies, lines 8-18: the snapshot written to COOKIES_FILE
saveCookies(cookies, email, time) ==
    [ kind |-> "snapshot", email |-> email, cookies |-> cookies, timestamp |-> time ]

\* loadCookies without the age test of line 27 (a mutant)
loadCookiesAgeIgnored(f, c, t, addOk) ==
    IF f = NoFile \/ f = Corrupt THEN [ ret |-> Null, ctx |-> c, add |-> "none" ]
    ELSE IF ~addOk THEN [ ret |-> Null, ctx |-> c, add |-> "threw" ]
    ELSE [ ret |-> f.email, ctx |-> c \cup f.cookies, add |-> "ok" ]

\* loadCookies returning the email although addCookies threw (a mutant)
loadCookiesIgnoringAddError(f, c, t, addOk) ==
    IF f = NoFile \/ f = Corrupt THEN [ ret |-> Null, ctx |-> c, add |-> "none" ]
    ELSE IF t - f.timestamp > maxAge THEN [ ret |-> Null, ctx |-> c, add |-> "none" ]
    ELSE IF ~addOk THEN [ ret |-> f.email, ctx |-> c, add |-> "threw" ]
    ELSE [ ret |-> f.email, ctx |-> c \cup f.cookies, add |-> "ok" ]

\* loadCookies, lines 20-40: the value returned and the context afterwards,
\* from the file f, the context c, the clock t and whether addCookies
\* resolves; add tells whether addCookies was called and how it ended
loadCookies(f, c, t, addOk) ==
    IF f = NoFile THEN [ ret |-> Null, ctx |-> c, add |-> "none" ]         \* existsSync false
    ELSE IF f = Corrupt THEN [ ret |-> Null, ctx |-> c, add |-> "none" ]   \* JSON.parse throws
    ELSE IF t - f.timestamp > maxAge THEN [ ret |-> Null, ctx |-> c, add |-> "none" ]
    ELSE IF ~addOk THEN [ ret |-> Null, ctx |-> c, add |-> "threw" ]       \* addCookies throws
    ELSE [ ret |-> f.email, ctx |-> c \cup f.cookies, add |-> "ok" ]

-----------------------------------------------------------------------------
(* create_vr.spec.ts: createVerificationRequest, entry and exits *)

\* a call of createVerificationRequest(page) from call site s
EnterCvr(s) ==
    /\ cvrSite' = s
    /\ cvrCalls' = cvrCalls + 1
    /\ cvrErr' = "none"
    /\ handlers' = <<>>
    /\ selection' = NoSelection /\ returned' = {} /\ payment' = {} /\ idLog' = <<>>
    /\ stepOutcome' = [x \in Steps |-> IF x \in CvrSteps \cup PauseSteps
                                        THEN "none" ELSE stepOutcome[x]]
    /\ Goto("c_confirm")

\* createVerificationRequest throws m: at the call of line 394 the catch of
\* line 397 takes it, at the calls of lines 404 and 457 the test fails
CvrThrow(m) ==
    /\ cvrErr' = m
    /\ IF cvrSite = "try"
       THEN Goto("t_check_url") /\ err' = err
       ELSE Fail(m)

\* createVerificationRequest returns: lines 395, 405 (return) and 458 (end)
CvrReturn == Goto("passed") /\ UNCHANGED <<err, cvrErr>>

-----------------------------------------------------------------------------
(* create_vr.spec.ts: test 'Create Verification Request', lines 369-458 *)

\* line 375: const savedEmail = await loadCookies(page); line 377: the branch
T_LoadCookies ==
    /\ test = "create_vr" /\ pc = "t_load"
    /\ \E addOk \in BOOLEAN :
         LET r == loadCookies(file, ctx, now, addOk) IN
           /\ savedEmail' = r.ret
           /\ ctx' = r.ctx
           /\ addCookies' = r.add
           /\ IF r.ret # Null /\ r.ret = specificEmail
              THEN Goto("t_goto_dash") ELSE Goto("f_goto")
    /\ UNCHANGED <<test, pageVars, fvfVars, flowVars, err, url, file, now, saved, cvrVars, sdoVars, stepOutcome,
                   vrGhost, loginVars>>

\* line 382: page.goto('.../en/dashboard/home'); the application may redirect
T_GotoDashboard ==
    /\ test = "create_vr" /\ pc = "t_goto_dash"
    /\ \/ \E u \in {"dashboard_home", "signin"} :
             url' = u /\ Goto("t_idle") /\ err' = err
       \/ Fail("page.goto failed") /\ url' = url
    /\ UNCHANGED <<test, pageVars, fvfVars, flowVars, cookieVars, cvrVars, sdoVars, stepOutcome, vrGhost, loginVars>>

\* line 385: page.waitForLoadState('networkidle')
T_WaitIdle ==
    /\ test = "create_vr" /\ pc = "t_idle"
    /\ \/ Goto("t_check_sel") /\ err' = err
       \/ Fail("waitForLoadState timed out")
    /\ UNCHANGED <<test, pageVars, fvfVars, flowVars, url, cookieVars, cvrVars, sdoVars, stepOutcome, vrGhost, loginVars>>

\* lines 388-396: the dashboard selector is found and
\* createVerificationRequest is called inside the try block
T_SelectorFound ==
    /\ test = "create_vr" /\ pc = "t_check_sel"
    /\ loginChecked' = TRUE
    /\ EnterCvr("try")
    /\ UNCHANGED <<test, pageVars, fvfVars, err, url, cookieVars, sdoVars, freshOps, wrote, verified, loginVars>>

\* lines 390, 397: waitForSelector times out, the catch block is entered
T_SelectorTimeout ==
    /\ test = "create_vr" /\ pc = "t_check_sel"
    /\ Goto("t_check_url")
    /\ UNCHANGED <<test, pageVars, fvfVars, flowVars, err, url, cookieVars, cvrVars, sdoVars, stepOutcome, vrGhost, loginVars>>

\* lines 397-409: the catch block, entered by any error of the try block
T_CatchCheckUrl ==
    /\ test = "create_vr" /\ pc = "t_check_url"
    /\ IF IncludesDashboard(url)
       THEN /\ loginChecked' = TRUE
            /\ EnterCvr("catch")
       ELSE /\ Goto("f_goto")
            /\ UNCHANGED <<loginChecked, cvrVars, flowVars, stepOutcome>>
    /\ UNCHANGED <<test, pageVars, fvfVars, err, url, cookieVars, sdoVars, freshOps, wrote, verified, loginVars>>

\* the awaited operations of the fresh login that neither branch nor save:
\* label, the label that follows, the URL classes the page can be on afterwards
FreshOps ==
    { [ at |-> "f_goto",    to |-> "f_idle",    op |-> "goto_signin",   urls |-> {"signin"}, throws |-> TRUE ],
      [ at |-> "f_idle",    to |-> "f_fill",    op |-> "wait_idle",     urls |-> {"signin"}, throws |-> TRUE ],
      [ at |-> "f_fill",    to |-> "f_pause1",  op |-> "fill_email",    urls |-> {"signin"}, throws |-> TRUE ],
      [ at |-> "f_pause1",  to |-> "f_consent", op |-> "captcha_pause", urls |-> {"signin"}, throws |-> FALSE ],
      [ at |-> "f_consent", to |-> "f_getotp",  op |-> "click_consent", urls |-> {"signin"}, throws |-> TRUE ],
      [ at |-> "f_getotp",  to |-> "f_pause2",  op |-> "click_get_otp", urls |-> {"otp", "signin"}, throws |-> TRUE ],
      [ at |-> "f_pause2",  to |-> "f_waitfn",  op |-> "otp_pause",
        urls |-> {"otp", "dashboard_home", "home", "about"}, throws |-> FALSE ] }

\* lines 416-437: goto sign-in, wait, fill the email, pause for the captcha,
\* consent, Get OTP, pause for the OTP
T_FreshStep ==
    /\ test = "create_vr"
    /\ \E s \in FreshOps :
         /\ pc = s.at
         /\ \/ /\ \E u \in s.urls : url' = u
               /\ freshOps' = freshOps \cup {s.op}
               /\ Goto(s.to) /\ err' = err
            \/ /\ s.throws
               /\ Fail(s.op) /\ UNCHANGED <<url, freshOps>>
    /\ UNCHANGED <<test, pageVars, fvfVars, flowVars, cookieVars, cvrVars, sdoVars, stepOutcome, loginChecked,
                   wrote, verified, loginVars>>

\* lines 441-446: waitForFunction(href includes '/dashboard' or '/home'),
\* polling for 5 s while the page may still navigate
T_WaitRedirect ==
    /\ test = "create_vr" /\ pc = "f_waitfn"
    /\ \/ \E u \in {url, "dashboard_home", "home"} :
            /\ IncludesDashboard(u) \/ IncludesHome(u)
            /\ url' = u
            /\ Goto("f_save") /\ err' = err
       \/ /\ ~(IncludesDashboard(url) \/ IncludesHome(url))
          /\ Fail("waitForFunction timed out") /\ url' = url
    /\ UNCHANGED <<test, pageVars, fvfVars, flowVars, cookieVars, cvrVars, sdoVars, stepOutcome, vrGhost, loginVars>>

\* line 449: await saveCookies(page, specificEmail)
T_SaveCookies ==
    /\ test = "create_vr" /\ pc = "f_save"
    /\ \/ /\ file' = saveCookies(ctx, specificEmail, now)
          /\ saved' = [ kind |-> "saved", email |-> specificEmail, cookies |-> ctx, time |-> now ]
          /\ wrote' = TRUE
          /\ freshOps' = freshOps \cup {"saveCookies"}
          /\ Goto("f_expect") /\ err' = err
       \/ /\ Fail("context.cookies failed")     \* page.context().cookies() throws
          /\ UNCHANGED <<file, saved, wrote, freshOps>>
    /\ UNCHANGED <<test, pageVars, fvfVars, flowVars, url, ctx, now, savedEmail, addCookies, cvrVars, sdoVars, stepOutcome,
                   loginChecked, verified, loginVars>>

\* lines 453-457: expect(page).toHaveURL(/.*dashboard.*/), retried for 5 s
\* while the page may still navigate, then createVerificationRequest
T_ExpectDashboard ==
    /\ test = "create_vr" /\ pc = "f_expect"
    /\ \E u \in {url, "dashboard_home", "signin"} :
         /\ url' = u
         /\ IF MatchesDashboard(u)
            THEN /\ verified' = "ok"
                 /\ EnterCvr("fresh")
                 /\ err' = err
            ELSE /\ verified' = "failed"
                 /\ Fail("expect toHaveURL failed")
                 /\ UNCHANGED <<cvrVars, flowVars, stepOutcome>>
    /\ UNCHANGED <<test, pageVars, fvfVars, cookieVars, sdoVars, loginChecked, freshOps, wrote, loginVars>>


-----------------------------------------------------------------------------
(* create_vr.spec.ts: createVerificationRequest, lines 760-989 *)

\* a click that can navigate leaves the page where it is or in the flow
AfterClick(u) == {u, "flow"}

\* line 764: waitForManualConfirmation(page, ...), a page.pause() (lines 461-465)
C_ManualConfirmation ==
    /\ pc = "c_confirm"
    /\ Goto("c_start1")
    /\ UNCHANGED <<test, pageVars, fvfVars, flowVars, err, url, cookieVars, cvrVars, sdoVars, stepOutcome, vrGhost, loginVars>>

StartLabels == << "c_start1", "c_start2", "c_start3" >>

\* lines 773-791: the three methods of clicking 'Start New Verification';
\* method k+1 is the catch block of method k
C_StartMethod(k) ==
    /\ pc = StartLabels[k]
    /\ \/ /\ \E u \in AfterClick(url) : url' = u
          /\ Goto("c_idle")
          /\ Select("startNewVerification", "ok")
          /\ UNCHANGED stepOutcome
       \/ /\ url' = url
          /\ IF k < Len(StartLabels)
             THEN /\ Goto(StartLabels[k + 1])
                  /\ Select("startNewVerification", "trying")
                  /\ UNCHANGED stepOutcome
             ELSE /\ Goto("c_start_links")
                  /\ Select("startNewVerification", "failed")
                  /\ SetOutcome("startNewVerification", "pending")
    /\ UNCHANGED <<test, pageVars, fvfVars, returned, payment, idLog, err, cookieVars, cvrVars, sdoVars, vrGhost, loginVars>>

\* the exhausted step hands over to the operator instead of throwing (a mutant)
C_StartNotFoundPauses ==
    /\ pc = "c_start_links"
    /\ SetOutcome("startNewVerification", "paused")
    /\ Goto("c_idle")
    /\ UNCHANGED <<test, pageVars, fvfVars, flowVars, err, url, cookieVars, cvrVars, sdoVars, vrGhost, loginVars>>

\* lines 791-799: all three failed: log the links, throw
C_StartNotFound ==
    /\ pc = "c_start_links"
    /\ SetOutcome("startNewVerification", "threw")
    /\ CvrThrow("Start New Verification button not found")
    /\ UNCHANGED <<test, pageVars, fvfVars, flowVars, url, cookieVars, cvrSite, cvrCalls, handlers, sdoVars, vrGhost, loginVars>>

\* an operation of the try block of lines 811-989 throws e: the catch of
\* line 986 logs and rethrows it
C_Rethrow(e) == CvrThrow(e)

\* line 804 and lines 813-814: waitForLoadState('networkidle'), the first
\* outside and the second inside the try block, and a timer
C_WaitAfterStart ==
    /\ pc \in {"c_idle", "c_bah_idle"}
    /\ \/ /\ Goto(IF pc = "c_idle" THEN "c_bah_idle" ELSE "c_bah1")
          /\ UNCHANGED <<err, cvrErr>>
       \/ C_Rethrow("waitForLoadState timed out")
    /\ UNCHANGED <<test, pageVars, fvfVars, flowVars, url, cookieVars, cvrSite, cvrCalls, handlers, sdoVars, stepOutcome,
                   vrGhost, loginVars>>

BahrainLabels == << "c_bah1", "c_bah2", "c_bah3", "c_bah4", "c_bah5" >>

\* lines 817-859: the five methods of selecting Bahrain, each the catch block
\* of the one before (method 5 also fails when boundingBox() returns null)
C_BahrainMethod(k) ==
    /\ pc = BahrainLabels[k]
    /\ \/ /\ \E u \in AfterClick(url) : url' = u
          /\ Goto("c_bah_verify")
          /\ Select("bahrain", "ok")
          /\ UNCHANGED stepOutcome
       \/ /\ url' = url
          /\ IF k < Len(BahrainLabels)
             THEN /\ Goto(BahrainLabels[k + 1])
                  /\ Select("bahrain", "trying")
                  /\ UNCHANGED stepOutcome
             ELSE /\ Goto("c_bah_debug")
                  /\ Select("bahrain", "failed")
                  /\ SetOutcome("bahrain", "pending")
    /\ UNCHANGED <<test, pageVars, fvfVars, returned, payment, idLog, err, cookieVars, cvrVars, sdoVars, vrGhost, loginVars>>

\* the exhausted Bahrain selection logs and goes on to NHRA (a mutant)
C_BahrainFailedGoesOn ==
    /\ pc = "c_bah_debug"
    /\ SetOutcome("bahrain", "threw")
    /\ Goto("c_nhra1")
    /\ UNCHANGED <<test, pageVars, fvfVars, flowVars, err, url, cookieVars, cvrVars, sdoVars, vrGhost,
                   loginVars>>

\* lines 859-871: all five failed: log the countries, throw
C_BahrainFailed ==
    /\ pc = "c_bah_debug"
    /\ SetOutcome("bahrain", "threw")
    /\ C_Rethrow("Could not select Bahrain after trying multiple methods")
    /\ UNCHANGED <<test, pageVars, fvfVars, flowVars, url, cookieVars, cvrSite, cvrCalls, handlers, sdoVars, vrGhost, loginVars>>

\* lines 877-889 and 896-897: timer, waitForLoadState, the check of the
\* selection (which only logs), timer, waitForLoadState
C_BahrainVerify ==
    /\ pc = "c_bah_verify"
    /\ \/ Goto("c_nhra1") /\ UNCHANGED <<err, cvrErr>>
       \/ C_Rethrow("waitForLoadState timed out")
    /\ UNCHANGED <<test, pageVars, fvfVars, flowVars, url, cookieVars, cvrSite, cvrCalls, handlers, sdoVars, stepOutcome,
                   vrGhost, loginVars>>

NhraLabels == << "c_nhra1", "c_nhra2", "c_nhra3", "c_nhra4", "c_nhra5" >>

\* lines 900-935: the five methods of selecting NHRA
C_NhraMethod(k) ==
    /\ pc = NhraLabels[k]
    /\ \/ /\ \E u \in AfterClick(url) : url' = u
          /\ Goto("c_nhra_verify")
          /\ Select("nhra", "ok")
          /\ UNCHANGED stepOutcome
       \/ /\ url' = url
          /\ IF k < Len(NhraLabels)
             THEN /\ Goto(NhraLabels[k + 1])
                  /\ Select("nhra", "trying")
                  /\ UNCHANGED stepOutcome
             ELSE /\ Goto("c_nhra_debug")
                  /\ Select("nhra", "failed")
                  /\ SetOutcome("nhra", "pending")
    /\ UNCHANGED <<test, pageVars, fvfVars, returned, payment, idLog, err, cookieVars, cvrVars, sdoVars, vrGhost, loginVars>>

\* lines 935-947 and 970-973: all five failed: log, throw, rethrow
C_NhraFailed ==
    /\ pc = "c_nhra_debug"
    /\ SetOutcome("nhra", "threw")
    /\ C_Rethrow("Could not select NHRA after trying multiple methods")
    /\ UNCHANGED <<test, pageVars, fvfVars, flowVars, url, cookieVars, cvrSite, cvrCalls, handlers, sdoVars, vrGhost, loginVars>>

\* lines 953-976: timer, waitForLoadState, the check of the selection (which
\* only logs), then the call of fillVerificationForm
C_NhraVerify ==
    /\ pc = "c_nhra_verify"
    /\ \/ /\ handlers' = Append(handlers, "fillVerificationForm")
          /\ Goto("fvf_load")
          /\ UNCHANGED <<err, cvrErr>>
       \/ C_Rethrow("waitForLoadState timed out") /\ UNCHANGED handlers
    /\ UNCHANGED <<test, pageVars, fvfVars, flowVars, url, cookieVars, cvrSite, cvrCalls, sdoVars, stepOutcome,
                   vrGhost, loginVars>>


-----------------------------------------------------------------------------
(* create_vr.spec.ts: selectDropdownOption, lines 43-180 *)

\* lines 92-100: the selectors of Strategy B, in their listed order
optionSelectors ==
    << "[role=option]", "[class*=menuItem]", "[class*=dropdown]",
       ".dropdown-module_menuItemLabel__VJuGM", "li", "div[role=listbox] div", "ul li" >>

\* lines 55-61: the testIds that get an input selector
KnownTestIds == { "testSpeciality", "testSubSpeciality" }

\* one strategy tried: s its name, k its selector (0 when it has none),
\* r whether it selected the option ("ok") or not ("fail")
Tried(s, k, r) == [ s |-> s, k |-> k, r |-> r ]

\* a call selectDropdownOption(page, id, optionText) from call site c
EnterSdo(c, id) ==
    /\ sdoSite' = c
    /\ testId' = id
    /\ sdoLog' = <<>>
    /\ optionClicked' = FALSE
    /\ selIdx' = 1
    /\ sdoRet' = Null
    /\ sdoEvents' = {}
    /\ SetOutcome("selectDropdownOption", "none")
    /\ Goto("s_ready")

\* return true (lines 86, 148 and 178), back to the caller
SdoReturn ==
    /\ sdoRet' = "true"
    /\ Goto(CASE sdoSite = 1 -> "fvf_after1"
              [] sdoSite = 2 -> "fvf_after2"
              [] OTHER       -> "passed")

\* lines 48-49: waitForLoadState('networkidle') and a timer
S_Ready ==
    /\ pc = "s_ready"
    /\ \/ Goto("s_input")
       \/ Goto("s_catch")
    /\ UNCHANGED <<test, pageVars, fvfVars, flowVars, err, url, cookieVars, cvrVars, sdoVars, stepOutcome, vrGhost, loginVars>>

\* lines 54-75: the input selector of the testId, waitForSelector,
\* expect(...).toBeVisible(), the click that opens the dropdown, a timer.
\* For another testId the selector is '' and waitForSelector throws.
S_OpenDropdown ==
    /\ pc = "s_input"
    /\ \/ /\ testId \in KnownTestIds
          /\ sdoEvents' = sdoEvents \cup {"dropdown_click"}
          /\ Goto("s_A")
       \/ /\ Goto("s_catch")
          /\ UNCHANGED sdoEvents
    /\ UNCHANGED <<test, pageVars, fvfVars, flowVars, err, url, cookieVars, cvrVars, sdoSite, testId, sdoLog, optionClicked,
                   selIdx, sdoRet, stepOutcome, vrGhost, loginVars>>

\* lines 80-89, Strategy A: waitForSelector(text=...), click, timer, return true
S_StrategyA ==
    /\ pc = "s_A"
    /\ \/ /\ sdoLog' = Append(sdoLog, Tried("A", 0, "ok"))    \* clicked
          /\ SdoReturn
       \/ /\ sdoLog' = Append(sdoLog, Tried("A", 0, "fail"))  \* the wait or the click threw
          /\ Goto("s_B")
          /\ UNCHANGED sdoRet
    /\ UNCHANGED <<test, pageVars, fvfVars, flowVars, err, url, cookieVars, cvrVars, sdoSite, testId, optionClicked, selIdx,
                   sdoEvents, stepOutcome, vrGhost, loginVars>>

\* where the for loop of lines 103-116 goes after selector j did not select
AfterSelector(j) == IF j < Len(optionSelectors) THEN "s_B" ELSE "s_C"

\* Strategy B without the break of line 110 (a mutant)
S_StrategyBNoBreak ==
    /\ pc = "s_B"
    /\ \/ /\ sdoLog' = Append(sdoLog, Tried("B", selIdx, "ok"))
          /\ optionClicked' = TRUE
          /\ selIdx' = IF selIdx < Len(optionSelectors) THEN selIdx + 1 ELSE selIdx
          /\ Goto(IF selIdx < Len(optionSelectors) THEN "s_B" ELSE "s_post")
       \/ /\ sdoLog' = Append(sdoLog, Tried("B", selIdx, "fail"))
          /\ selIdx' = IF selIdx < Len(optionSelectors) THEN selIdx + 1 ELSE selIdx
          /\ Goto(IF selIdx < Len(optionSelectors) THEN "s_B"
                  ELSE IF optionClicked THEN "s_post" ELSE "s_C")
          /\ UNCHANGED optionClicked
    /\ UNCHANGED <<test, pageVars, fvfVars, flowVars, err, url, cookieVars, cvrVars, sdoSite, testId, sdoRet, sdoEvents,
                   stepOutcome, vrGhost, loginVars>>

\* lines 102-116, Strategy B, one turn of the loop over optionSelectors:
\* the element is visible and the click resolves (optionClicked, break);
\* or it is not visible; or isVisible() or click() throws (continue)
S_StrategyB ==
    /\ pc = "s_B"
    /\ \/ /\ sdoLog' = Append(sdoLog, Tried("B", selIdx, "ok"))
          /\ optionClicked' = TRUE
          /\ Goto("s_post")
          /\ UNCHANGED selIdx
       \/ /\ sdoLog' = Append(sdoLog, Tried("B", selIdx, "fail"))
          /\ selIdx' = IF selIdx < Len(optionSelectors) THEN selIdx + 1 ELSE selIdx
          /\ Goto(AfterSelector(selIdx))
          /\ UNCHANGED optionClicked
    /\ UNCHANGED <<test, pageVars, fvfVars, flowVars, err, url, cookieVars, cvrVars, sdoSite, testId, sdoRet, sdoEvents,
                   stepOutcome, vrGhost, loginVars>>

\* lines 118-133, Strategy C (reached with optionClicked false): click the
\* input, Control+A, type the option, timer, Enter
S_StrategyC ==
    /\ pc = "s_C"
    /\ \/ /\ sdoLog' = Append(sdoLog, Tried("C", 0, "ok"))
          /\ optionClicked' = TRUE
          /\ Goto("s_post")
          /\ UNCHANGED stepOutcome
       \/ /\ sdoLog' = Append(sdoLog, Tried("C", 0, "fail"))
          /\ Goto("s_D")
          /\ SetOutcome("selectDropdownOption", "pending")
          /\ UNCHANGED optionClicked
    /\ UNCHANGED <<test, pageVars, fvfVars, flowVars, err, url, cookieVars, cvrVars, sdoSite, testId, selIdx, sdoRet,
                   sdoEvents, vrGhost, loginVars>>

\* lines 135-141, Strategy D: page.pause(), then optionClicked = true
S_StrategyD ==
    /\ pc = "s_D"
    /\ sdoLog' = Append(sdoLog, Tried("D", 0, "ok"))
    /\ optionClicked' = TRUE
    /\ SetOutcome("selectDropdownOption", "paused")
    /\ sdoEvents' = sdoEvents \cup {"pause"}
    /\ Goto("s_post")
    /\ UNCHANGED <<test, pageVars, fvfVars, flowVars, err, url, cookieVars, cvrVars, sdoSite, testId, selIdx, sdoRet,
                   vrGhost, loginVars>>

\* lines 143-148: timer, waitForLoadState('networkidle'), return true
S_Settle ==
    /\ pc = "s_post"
    /\ \/ SdoReturn
       \/ Goto("s_catch") /\ UNCHANGED sdoRet
    /\ UNCHANGED <<test, pageVars, fvfVars, flowVars, err, url, cookieVars, cvrVars, sdoSite, testId, sdoLog, optionClicked,
                   selIdx, sdoEvents, stepOutcome, vrGhost, loginVars>>

\* the catch block returning true without its page.pause() (a mutant)
S_CatchWithoutPause ==
    /\ pc = "s_catch"
    /\ SdoReturn
    /\ UNCHANGED <<test, pageVars, fvfVars, flowVars, err, url, cookieVars, cvrVars, sdoSite, testId, sdoLog, optionClicked,
                   selIdx, sdoEvents, stepOutcome, vrGhost, loginVars>>

\* lines 150-178: the catch block: debug output, page.pause(), return true
S_CatchPause ==
    /\ pc = "s_catch"
    /\ sdoEvents' = sdoEvents \cup {"catch_pause"}
    /\ SdoReturn
    /\ UNCHANGED <<test, pageVars, fvfVars, flowVars, err, url, cookieVars, cvrVars, sdoSite, testId, sdoLog, optionClicked,
                   selIdx, stepOutcome, vrGhost, loginVars>>


-----------------------------------------------------------------------------
(* create_vr.spec.ts: fillVerificationForm, lines 468-757 *)

\* lines 718-755: the catch block logs the page state and rethrows; the
\* catch of line 986 rethrows again
FvfThrow(e) == C_Rethrow(e)

\* lines 473-492: timer, waitForLoadState, the first dropdown is visible or
\* is waited for; line 496: selectDropdownOption(page, 'testSpeciality', ...)
F_FirstDropdown ==
    /\ pc = "fvf_load"
    /\ \/ /\ EnterSdo(1, "testSpeciality")
          /\ UNCHANGED <<err, cvrErr>>
       \/ /\ FvfThrow("first dropdown not found")
          /\ UNCHANGED <<sdoVars, stepOutcome>>
    /\ UNCHANGED <<test, pageVars, fvfVars, flowVars, url, cookieVars, cvrSite, cvrCalls, handlers, vrGhost, loginVars>>

\* the caller goes on after a call of selectDropdownOption, whose result
\* it does not use: the locals of that call have ended
SdoLocalsEnd ==
    /\ sdoSite' = 0 /\ testId' = Null /\ sdoLog' = <<>> /\ optionClicked' = FALSE
    /\ selIdx' = 1 /\ sdoRet' = Null /\ sdoEvents' = {}
    /\ stepOutcome' = [stepOutcome EXCEPT !["selectDropdownOption"] = "none"]

\* line 508: const maxAttempts = 10
maxAttempts == 10

\* the loop test with one attempt too many (a mutant)
LoopContinuesOnceMore(ready, a) == ~ready /\ a <= maxAttempts

\* line 510: while (!secondDropdownReady && attempts < maxAttempts)
LoopContinues(ready, a) == ~ready /\ a < maxAttempts

\* lines 498-508: timer, waitForLoadState, the locals of the wait loop
F_AfterFirstDropdown ==
    /\ pc = "fvf_after1"
    /\ \/ /\ secondDropdownReady' = FALSE
          /\ attempts' = 0
          /\ Goto("fvf_wait")
          /\ UNCHANGED <<err, cvrErr>>
       \/ /\ FvfThrow("waitForLoadState timed out")
          /\ UNCHANGED fvfVars
    /\ SdoLocalsEnd
    /\ UNCHANGED <<test, pageVars, flowVars, url, cookieVars, cvrSite, cvrCalls, handlers, vrGhost, loginVars>>

\* lines 510-529: one turn of the wait loop: attempts++, then the readiness
\* check: the dropdown is there, visible and enabled; or it is not and a
\* timer runs; or waitForSelector, isVisible or isEnabled throws and the
\* catch block runs a timer
F_WaitTurn ==
    /\ pc = "fvf_wait"
    /\ LoopContinues(secondDropdownReady, attempts)
    /\ attempts' = attempts + 1
    /\ \E ready \in BOOLEAN : secondDropdownReady' = ready
    /\ Goto("fvf_wait")
    /\ UNCHANGED <<test, pageVars, flowVars, err, url, cookieVars, cvrVars, sdoVars, stepOutcome, vrGhost,
                   loginVars>>

\* lines 531-537: the loop has ended; ready or not,
\* selectDropdownOption(page, 'testSubSpeciality', ...)
F_SecondDropdown ==
    /\ pc = "fvf_wait"
    /\ ~LoopContinues(secondDropdownReady, attempts)
    /\ EnterSdo(2, "testSubSpeciality")
    /\ UNCHANGED <<test, pageVars, fvfVars, flowVars, err, url, cookieVars, cvrVars, vrGhost, loginVars>>

\* lines 979-2823 of createVerificationRequest: the calls that follow
\* fillVerificationForm, in program order
CallsWithLoaBeforeSummary ==
    << "handleReportTransferPage", "handleVerifyEducationPage",
       "handleEducationDetailsPage", "handlePricingEstimatePage", "handleCrlPage",
       "handleUploadDocumentIdentityPage", "saveAndContinueIdentity",
       "handleDegreeDiplomaPage", "addAdditionalDocument", "automateLOAPage",
       "applicationSummary", "pricingSummary", "paypalPg",
       "handlePaymentStatusPage", "printVerificationSummary" >>
CallsAfterForm ==
    << "handleReportTransferPage", "handleVerifyEducationPage",
       "handleEducationDetailsPage", "handlePricingEstimatePage", "handleCrlPage",
       "handleUploadDocumentIdentityPage", "saveAndContinueIdentity",
       "handleDegreeDiplomaPage", "addAdditionalDocument", "applicationSummary",
       "automateLOAPage", "pricingSummary", "paypalPg",
       "handlePaymentStatusPage", "printVerificationSummary" >>

HandlerLabels == { CallsAfterForm[k] : k \in 1..Len(CallsAfterForm) }

\* the position of handler h among the calls
CallIndex(h) == CHOOSE k \in 1..Len(CallsAfterForm) : CallsAfterForm[k] = h

\* the call that follows the return of the handler at position k:
\* the next handler, or the end of createVerificationRequest
CallNext(k) ==
    /\ returned' = returned \cup {IF k = 0 THEN "fillVerificationForm" ELSE CallsAfterForm[k]}
    /\ IF k < Len(CallsAfterForm)
       THEN /\ handlers' = Append(handlers, CallsAfterForm[k + 1])
            /\ Goto(CallsAfterForm[k + 1])
            /\ UNCHANGED <<err, cvrErr>>
       ELSE /\ CvrReturn
            /\ UNCHANGED handlers

\* fillVerificationForm is left: its locals end with it
FormLocalsEnd ==
    /\ secondDropdownReady' = FALSE /\ attempts' = 0
    /\ SdoLocalsEnd

\* lines 539-716: timer, waitForLoadState, the document section, the
\* mandatory checkbox and the Proceed button (each with its own fallbacks
\* and pause); the function returns and handleReportTransferPage is called
F_DocumentsAndProceed ==
    /\ pc = "fvf_after2"
    /\ \/ /\ \E u \in AfterClick(url) : url' = u
          /\ CallNext(0)
       \/ /\ FvfThrow("waitForLoadState timed out")
          /\ UNCHANGED <<url, handlers, returned>>
    /\ FormLocalsEnd
    /\ UNCHANGED <<test, pageVars, selection, payment, idLog, cookieVars, cvrSite, cvrCalls, vrGhost, loginVars>>

\* the handlers modelled statement by statement
DetailedHandlers ==
    { "handleUploadDocumentIdentityPage", "saveAndContinueIdentity", "paypalPg" }

\* a handler whose error is logged and the next handler called (a mutant)
C_HandlerSwallows(h) ==
    /\ pc = h
    /\ h \notin DetailedHandlers
    /\ \/ /\ \E u \in AfterClick(url) : url' = u
          /\ CallNext(CallIndex(h))
       \/ /\ CallIndex(h) < Len(CallsAfterForm)
          /\ handlers' = Append(handlers, CallsAfterForm[CallIndex(h) + 1])
          /\ Goto(CallsAfterForm[CallIndex(h) + 1])
          /\ UNCHANGED <<url, returned, err, cvrErr>>
    /\ UNCHANGED <<test, pageVars, fvfVars, selection, payment, idLog, cookieVars, cvrSite, cvrCalls,
                   sdoVars, stepOutcome, vrGhost, loginVars>>

\* a page handler called by createVerificationRequest (lines 979-2852) runs:
\* it returns, or it throws and createVerificationRequest throws with it
C_Handler(h) ==
    /\ pc = h
    /\ h \notin DetailedHandlers
    /\ \/ /\ \E u \in AfterClick(url) : url' = u
          /\ CallNext(CallIndex(h))
       \/ /\ CvrThrow(h)
          /\ UNCHANGED <<url, handlers, returned>>
    /\ UNCHANGED <<test, pageVars, fvfVars, selection, payment, idLog, cookieVars, cvrSite, cvrCalls, sdoVars, stepOutcome, vrGhost, loginVars>>

-----------------------------------------------------------------------------
(* create_vr.spec.ts: the identity page, lines 1530-2044 *)

\* lines 1539-1556 and 1572-1580 of handleUploadDocumentIdentityPage:
\* waitForLoadState, a timer and two isVisible reads; an error is logged
\* with the page title and rethrown
I_Load ==
    /\ pc = "handleUploadDocumentIdentityPage"
    /\ \/ Goto("id_upload") /\ UNCHANGED <<err, cvrErr>>
       \/ CvrThrow("handleUploadDocumentIdentityPage")
    /\ UNCHANGED <<test, pageVars, fvfVars, flowVars, url, cookieVars, cvrSite, cvrCalls, handlers, sdoVars,
                   stepOutcome, vrGhost, loginVars>>

\* line 1560, uploadPassportDocument (lines 1585-1636): the upload, or the
\* pause of its catch block; it never throws
I_Upload ==
    /\ pc = "id_upload"
    /\ Goto("id_fill")
    /\ UNCHANGED <<test, pageVars, fvfVars, flowVars, err, url, cookieVars, cvrVars, sdoVars, stepOutcome,
                   vrGhost, loginVars>>

\* line 1564, fillIdentityFormDetails (lines 1639-1966): it fills what it can
\* and ends, leaving Date of Expiry empty; on the way it may have paused
\* (lines 1900, 1910, 1916 for the gender, line 1964 in its catch block)
I_Fill ==
    /\ pc = "id_fill"
    /\ \E ev \in { <<"fill_end">>, <<"pause", "fill_end">> } : idLog' = idLog \o ev
    /\ Goto("id_sac")
    /\ UNCHANGED <<test, pageVars, fvfVars, selection, returned, payment, err, url, cookieVars, cvrVars,
                   sdoVars, stepOutcome, vrGhost, loginVars>>

\* what one call of saveAndContinueIdentity (lines 1969-2044) does: it
\* clicks Save and Continue (line 1985) or an alternative button (line
\* 2023); or it clicks and the wait that follows throws, so that the catch
\* block pauses (line 2042); or it clicks nothing and pauses (lines 2000,
\* 2035, 2042)
SaveAndContinueOutcomes ==
    { <<"sac_enter", "sac_click">>,
      <<"sac_enter", "sac_click", "sac_pause">>,
      <<"sac_enter", "sac_pause">> }

\* the calls of saveAndContinueIdentity: line 1568, as step 3 of
\* handleUploadDocumentIdentityPage, which then returns; and line 1533, in
\* createVerificationRequest after that handler has returned
I_SaveAndContinue ==
    /\ pc \in {"id_sac", "saveAndContinueIdentity"}
    /\ \E ev \in SaveAndContinueOutcomes : idLog' = idLog \o ev
    /\ \E u \in AfterClick(url) : url' = u
    /\ CallNext(CallIndex(IF pc = "id_sac" THEN "handleUploadDocumentIdentityPage"
                                           ELSE "saveAndContinueIdentity"))
    /\ UNCHANGED <<test, pageVars, fvfVars, selection, payment, cookieVars, cvrSite, cvrCalls, sdoVars,
                   stepOutcome, vrGhost, loginVars>>

-----------------------------------------------------------------------------
(* create_vr.spec.ts: paypalPg, lines 2676-2709 *)

\* lines 2678-2704: the fills of email, phone, card data, names and billing
\* address and the toggle; when one of them throws, the card data (lines
\* 2680-2682) has been filled or not
PP_Fill ==
    /\ pc = "paypalPg"
    /\ \/ /\ payment' = {"card"}
          /\ Goto("pp_submit")
          /\ UNCHANGED <<err, cvrErr>>
       \/ /\ \E done \in { {}, {"card"} } : payment' = done
          /\ CvrThrow("paypalPg")
    /\ UNCHANGED <<test, pageVars, fvfVars, selection, returned, idLog, url, cookieVars, cvrSite, cvrCalls,
                   handlers, sdoVars, stepOutcome, vrGhost, loginVars>>

\* lines 2707-2708: a timer, the click on the submit button
PP_Submit ==
    /\ pc = "pp_submit"
    /\ \/ /\ payment' = payment \cup {"submit"}
          /\ \E u \in AfterClick(url) : url' = u
          /\ CallNext(CallIndex("paypalPg"))
       \/ /\ CvrThrow("paypalPg")
          /\ UNCHANGED <<payment, url, handlers, returned>>
    /\ UNCHANGED <<test, pageVars, fvfVars, selection, idLog, cookieVars, cvrSite, cvrCalls, sdoVars,
                   stepOutcome, vrGhost, loginVars>>

-----------------------------------------------------------------------------
(* login.spec.ts: generateRandomPhoneNumber, lines 10-20 *)

\* Math.floor(Math.random() * n) when Math.random() produced k / RandSteps
Floor(k, n) == (k * n) \div RandSteps

\* the decimal representation of a natural number, as its characters
RECURSIVE NumberToString(_)
NumberToString(n) == IF n < 10 THEN << n >> ELSE NumberToString(n \div 10) \o << n % 10 >>

\* line 12: the first digits to choose from
FirstDigits == << 6, 7, 8, 9 >>

\* line 15: the number of turns of the loop
RemainingCount == 9

\* lines 14-17: remainingDigits after the turns j .. RemainingCount of the
\* loop, rs[j + 1] being the outcome of Math.random() in turn j
RECURSIVE RemainingDigits(_, _, _)
RemainingDigits(rs, j, acc) ==
    IF j > RemainingCount THEN acc
    ELSE RemainingDigits(rs, j + 1, acc \o NumberToString(Floor(rs[j + 1], 10)))

\* the function with one turn of the loop too many (a mutant)
generateElevenDigits(rs) ==
    NumberToString(FirstDigits[Floor(rs[1], 4) + 1])
      \o RemainingDigits(rs, 1, <<>>) \o NumberToString(Floor(rs[1], 10))

\* lines 10-20: firstDigit + remainingDigits, a string
generateRandomPhoneNumber(rs) ==
    NumberToString(FirstDigits[Floor(rs[1], 4) + 1]) \o RemainingDigits(rs, 1, <<>>)

\* the outcomes of Math.random() one call of the function consumes
DrawsPerPhone == 1 + RemainingCount

-----------------------------------------------------------------------------
(* login.spec.ts: test 'Login and complete applicant details', lines 63-403 *)

\* line 81: const otp = '123456'
otp == << 1, 2, 3, 4, 5, 6 >>

\* lines 64-65: generateRandomEmail() and generateRandomPhoneNumber()
L_Generate ==
    /\ test = "login" /\ pc = "l_generate"
    /\ phoneNumber' = generateRandomPhoneNumber(SubSeq(rand, 1, DrawsPerPhone))
    /\ Goto("l_goto")
    /\ UNCHANGED <<test, pageVars, fvfVars, flowVars, err, url, cookieVars, cvrVars, sdoVars, stepOutcome, vrGhost, rand,
                   filled, otpLog, i, checkboxSelected, shots, redirectedUrl, touched>>

\* the awaited operations of lines 70-82, each followed by the next:
\* goto sign-in, fill the email, pause for the captcha, consent, Get OTP,
\* waitForURL('**/verification/mobile'), waitForSelector(input[type=tel])
SignInOps ==
    { [ at |-> "l_goto",    to |-> "l_email",   url |-> "signin", throws |-> TRUE ],
      [ at |-> "l_email",   to |-> "l_pause",   url |-> "signin", throws |-> TRUE ],
      [ at |-> "l_pause",   to |-> "l_consent", url |-> "signin", throws |-> FALSE ],
      [ at |-> "l_consent", to |-> "l_getotp",  url |-> "signin", throws |-> TRUE ],
      [ at |-> "l_getotp",  to |-> "l_waiturl", url |-> "signin", throws |-> TRUE ],
      [ at |-> "l_waiturl", to |-> "l_waittel", url |-> "otp",    throws |-> TRUE ],
      [ at |-> "l_waittel", to |-> "l_otp_click", url |-> "otp",  throws |-> TRUE ] }

L_SignInStep ==
    /\ test = "login"
    /\ \E s \in SignInOps :
         /\ pc = s.at
         /\ \/ url' = s.url /\ Goto(s.to) /\ err' = err
            \/ s.throws /\ Fail(s.at) /\ url' = url
    /\ UNCHANGED <<test, pageVars, fvfVars, flowVars, cookieVars, cvrVars, sdoVars, stepOutcome, vrGhost, loginVars>>

\* line 87: the key pressed in turn j of the loop (j = 0 .. 5): otp[j]
OtpKeyFirst(j) == otp[1]
OtpKey(j) == otp[j + 1]

\* lines 85-86: input = locator('input[type="tel"]').nth(i); input.click()
L_OtpClick ==
    /\ test = "login" /\ pc = "l_otp_click"
    /\ \/ /\ otpLog' = Append(otpLog, << "click", i >>)
          /\ Goto("l_otp_press") /\ err' = err
       \/ /\ Fail("input.click failed") /\ UNCHANGED otpLog
    /\ UNCHANGED <<test, pageVars, fvfVars, flowVars, url, cookieVars, cvrVars, sdoVars, stepOutcome, vrGhost, rand,
                   phoneNumber, filled, i, checkboxSelected, shots, redirectedUrl, touched>>

\* lines 84, 87-88: keyboard.press(otp[i]), a timer, i++ and the loop test
L_OtpPress ==
    /\ test = "login" /\ pc = "l_otp_press"
    /\ otpLog' = Append(otpLog, << "press", OtpKey(i) >>)
    /\ i' = i + 1
    /\ Goto(IF i + 1 < Len(otp) THEN "l_otp_click" ELSE "l_redirect")
    /\ UNCHANGED <<test, pageVars, fvfVars, flowVars, err, url, cookieVars, cvrVars, sdoVars, stepOutcome, vrGhost, rand,
                   phoneNumber, filled, checkboxSelected, shots, redirectedUrl, touched>>

\* the branch of line 100 turned around (a mutant)
AfterRedirectInverted(u) == IF IncludesAboutYourself(u) THEN "l_unexpected" ELSE "l_salutation"
\* line 100: if (redirectedUrl.includes('/onboarding/about-yourself'))
AfterRedirect(u) == IF IncludesAboutYourself(u) THEN "l_salutation" ELSE "l_unexpected"

\* lines 93-100: waitForFunction(href does not include '/verification/mobile'),
\* redirectedUrl = page.url(), the branch
L_WaitRedirect ==
    /\ test = "login" /\ pc = "l_redirect"
    /\ \/ \E u \in {"about", "dashboard_home", "signin"} :
            /\ ~IncludesVerificationMobile(u)
            /\ url' = u
            /\ redirectedUrl' = u
            /\ otpLog' = Append(otpLog, << "waitRedirect", 0 >>)
            /\ Goto(AfterRedirect(u)) /\ err' = err
       \/ /\ Fail("waitForFunction timed out")
          /\ otpLog' = Append(otpLog, << "waitRedirect", 0 >>)
          /\ UNCHANGED <<url, redirectedUrl>>
    /\ UNCHANGED <<test, pageVars, fvfVars, flowVars, cookieVars, cvrVars, sdoVars, stepOutcome, vrGhost, rand,
                   phoneNumber, filled, i, checkboxSelected, shots, touched>>

\* lines 389-393: the else branch: screenshot, throw
L_Unexpected ==
    /\ test = "login" /\ pc = "l_unexpected"
    /\ shots' = shots \cup {"unexpected-page.png"}
    /\ Fail("Redirection failed after OTP")
    /\ UNCHANGED <<test, pageVars, fvfVars, flowVars, url, cookieVars, cvrVars, sdoVars, stepOutcome, vrGhost, rand,
                   phoneNumber, filled, otpLog, i, checkboxSelected, redirectedUrl, touched>>


\* the awaited form steps of lines 103-110 and 129-259 that come one after
\* the other, each throwing into the test when an operation of it fails:
\* salutation, first and last name; date of birth (click and pause), gender,
\* nationality and profession (each with its alternative approach), the
\* validation fixes, the scroll and the hover (which catches its own error)
FormOps ==
    { [ at |-> "l_salutation",  to |-> "l_names",       field |-> "salutation" ],
      [ at |-> "l_names",       to |-> "l_phone",       field |-> "names" ],
      [ at |-> "l_dob",         to |-> "l_gender",      field |-> "dob" ],
      [ at |-> "l_gender",      to |-> "l_nationality", field |-> "gender" ],
      [ at |-> "l_nationality", to |-> "l_profession",  field |-> "nationality" ],
      [ at |-> "l_profession",  to |-> "l_validation",  field |-> "profession" ],
      [ at |-> "l_validation",  to |-> "l_cb1",         field |-> "validation" ] }

L_FormStep ==
    /\ test = "login"
    /\ \E s \in FormOps :
         /\ pc = s.at
         /\ touched' = touched \cup {s.field}
         /\ \/ Goto(s.to) /\ err' = err
            \/ Fail(s.at)
    /\ UNCHANGED <<test, pageVars, fvfVars, flowVars, url, cookieVars, cvrVars, sdoVars, stepOutcome, vrGhost, rand,
                   phoneNumber, filled, otpLog, i, checkboxSelected, shots, redirectedUrl>>

\* lines 112-127: clear and fill the phone field with phoneNumber, read it
\* back; when the field does not hold 10 characters, generate a new number
\* (const newPhoneNumber) and fill that
L_Phone ==
    /\ test = "login" /\ pc = "l_phone"
    /\ touched' = touched \cup {"phone"}
    /\ \/ /\ filled' = phoneNumber                     \* enteredPhone.length = 10
          /\ Goto("l_dob") /\ err' = err
       \/ /\ filled' = generateRandomPhoneNumber(      \* the regeneration
                          SubSeq(rand, DrawsPerPhone + 1, 2 * DrawsPerPhone))
          /\ Goto("l_dob") /\ err' = err
       \/ /\ Fail("phone field") /\ UNCHANGED filled
    /\ UNCHANGED <<test, pageVars, fvfVars, flowVars, url, cookieVars, cvrVars, sdoVars, stepOutcome, vrGhost, rand,
                   phoneNumber, otpLog, i, checkboxSelected, shots, redirectedUrl>>

CheckboxLabels == << "l_cb1", "l_cb2", "l_cb3", "l_cb4", "l_cb5", "l_cb6" >>

\* lines 264-350: method k of checking the terms checkbox; methods 2 to 6
\* are guarded by if (!checkboxSelected), and every method catches its errors
L_CheckboxMethod(k) ==
    /\ test = "login" /\ pc = CheckboxLabels[k]
    /\ \/ /\ checkboxSelected' = TRUE
          /\ Goto("l_cb_after")
          /\ UNCHANGED stepOutcome
       \/ /\ UNCHANGED checkboxSelected
          /\ IF k < Len(CheckboxLabels)
             THEN Goto(CheckboxLabels[k + 1]) /\ UNCHANGED stepOutcome
             ELSE Goto("l_cb_after") /\ SetOutcome("termsCheckbox", "pending")
    /\ UNCHANGED <<test, pageVars, fvfVars, flowVars, err, url, cookieVars, cvrVars, sdoVars, vrGhost, rand, phoneNumber,
                   filled, otpLog, i, shots, redirectedUrl, touched>>

\* lines 352-358: if (!checkboxSelected) screenshot; a timer
L_AfterCheckbox ==
    /\ test = "login" /\ pc = "l_cb_after"
    /\ IF checkboxSelected
       THEN UNCHANGED <<shots, stepOutcome>>
       ELSE /\ shots' = shots \cup {"checkbox-selection-failed.png"}
            /\ SetOutcome("termsCheckbox", "continued")
    /\ Goto("l_wait_continue")
    /\ UNCHANGED <<test, pageVars, fvfVars, flowVars, err, url, cookieVars, cvrVars, sdoVars, vrGhost, rand, phoneNumber,
                   filled, otpLog, i, checkboxSelected, redirectedUrl, touched>>

\* line 361: waitForSelector('button:has-text("Continue"):not([disabled])')
L_WaitContinue ==
    /\ test = "login" /\ pc = "l_wait_continue"
    /\ \/ Goto("l_continue") /\ err' = err
       \/ Fail("Continue button not enabled")
    /\ UNCHANGED <<test, pageVars, fvfVars, flowVars, url, cookieVars, cvrVars, sdoVars, stepOutcome, vrGhost, loginVars>>

\* line 363: the click on Continue
L_Continue ==
    /\ test = "login" /\ pc = "l_continue"
    /\ \/ /\ touched' = touched \cup {"continue"}
          /\ \E u \in {url, "flow"} : url' = u
          /\ Goto("l_final") /\ err' = err
       \/ /\ Fail("Continue click failed") /\ UNCHANGED <<touched, url>>
    /\ UNCHANGED <<test, pageVars, fvfVars, flowVars, cookieVars, cvrVars, sdoVars, stepOutcome, vrGhost, rand, phoneNumber,
                   filled, otpLog, i, checkboxSelected, shots, redirectedUrl>>

\* lines 365-402: the timers, the final screenshots and the summary
L_Final ==
    /\ test = "login" /\ pc = "l_final"
    /\ shots' = shots \cup {"final-application-page.png"}
                      \cup (IF IncludesAboutYourself(url)
                            THEN {"form-submission-failed.png"} ELSE {})
    /\ Goto("passed")
    /\ UNCHANGED <<test, pageVars, fvfVars, flowVars, err, url, cookieVars, cvrVars, sdoVars, stepOutcome, vrGhost, rand,
                   phoneNumber, filled, otpLog, i, checkboxSelected, redirectedUrl, touched>>

-----------------------------------------------------------------------------
(* The scripts *)

\* the streams of outcomes of Math.random() of a run of the login test
\* (the draws of the second call of generateRandomPhoneNumber repeat those of
\* the first or are shifted against them)
RandStreams ==
    { [ j \in 1..(2 * DrawsPerPhone) |->
          (a + j + (IF j > DrawsPerPhone THEN b ELSE 0)) % RandSteps ] :
        a \in 0..(RandSteps - 1), b \in 0..1 }

InitCommon ==
    /\ err = "none"
    /\ url = "blank"
    /\ savedEmail = Null /\ addCookies = "none" /\ saved = NotSaved
    /\ cvrSite = "none" /\ cvrCalls = 0 /\ cvrErr = "none" /\ handlers = <<>>
    /\ sdoSite = 0 /\ testId = Null /\ sdoLog = <<>> /\ optionClicked = FALSE
    /\ selIdx = 1 /\ sdoRet = Null /\ sdoEvents = {}
    /\ secondDropdownReady = FALSE /\ attempts = 0
    /\ selection = NoSelection /\ returned = {} /\ payment = {} /\ idLog = <<>>
    /\ stepOutcome = NoOutcome
    /\ loginChecked = FALSE /\ freshOps = {} /\ wrote = FALSE /\ verified = "none"
    /\ phoneNumber = <<>> /\ filled = <<>> /\ otpLog = <<>> /\ i = 0
    /\ checkboxSelected = FALSE /\ shots = {} /\ redirectedUrl = Null /\ touched = {}
    /\ page = NoPage /\ locals = NoLocals /\ acts = <<>> /\ result = "none"

\* a run of test 'Create Verification Request': cookies.json is absent,
\* unreadable, or a snapshot an earlier run wrote; the context holds what
\* the project's storage state gave it
InitCreateVr ==
    /\ test = "create_vr" /\ pc = "t_load" /\ inFlight = {}
    /\ file \in {NoFile, Corrupt} \cup Snapshots
    /\ now \in { T0 + a : a \in Ages }
    /\ ctx \in { {}, {"auth"} }
    /\ rand = <<>>
    /\ InitCommon

\* a run of test 'Login and complete applicant details'
InitLogin ==
    /\ test = "login" /\ pc = "l_generate" /\ inFlight = {}
    /\ file = NoFile /\ now = T0 /\ ctx = {}
    /\ rand \in RandStreams
    /\ InitCommon

Init == InitCreateVr \/ InitLogin

Next ==
    \/ T_LoadCookies
    \/ T_GotoDashboard
    \/ T_WaitIdle
    \/ T_SelectorFound
    \/ T_SelectorTimeout
    \/ T_CatchCheckUrl
    \/ T_FreshStep
    \/ T_WaitRedirect
    \/ T_SaveCookies
    \/ T_ExpectDashboard
    \/ C_ManualConfirmation
    \/ \E k \in 1..Len(StartLabels) : C_StartMethod(k)
    \/ C_StartNotFound
    \/ C_WaitAfterStart
    \/ \E k \in 1..Len(BahrainLabels) : C_BahrainMethod(k)
    \/ C_BahrainFailed
    \/ C_BahrainVerify
    \/ \E k \in 1..Len(NhraLabels) : C_NhraMethod(k)
    \/ C_NhraFailed
    \/ C_NhraVerify
    \/ F_FirstDropdown
    \/ F_AfterFirstDropdown
    \/ F_WaitTurn
    \/ F_SecondDropdown
    \/ F_DocumentsAndProceed
    \/ S_Ready
    \/ S_OpenDropdown
    \/ S_StrategyA
    \/ S_StrategyB
    \/ S_StrategyC
    \/ S_StrategyD
    \/ S_Settle
    \/ S_CatchPause
    \/ \E h \in HandlerLabels : C_Handler(h)
    \/ I_Load
    \/ I_Upload
    \/ I_Fill
    \/ I_SaveAndContinue
    \/ PP_Fill
    \/ PP_Submit
    \/ L_Generate
    \/ L_SignInStep
    \/ L_OtpClick
    \/ L_OtpPress
    \/ L_WaitRedirect
    \/ L_Unexpected
    \/ L_FormStep
    \/ L_Phone
    \/ \E k \in 1..Len(CheckboxLabels) : L_CheckboxMethod(k)
    \/ L_AfterCheckbox
    \/ L_WaitContinue
    \/ L_Continue
    \/ L_Final

Spec == Init /\ [][Next]_vars

-----------------------------------------------------------------------------
(* generateRandomPhoneNumber on every stream of outcomes of Math.random() *)

InitPhone ==
    /\ test = "phone" /\ pc = "p_generate" /\ inFlight = {}
    /\ file = NoFile /\ now = T0 /\ ctx = {}
    /\ rand \in [ 1..DrawsPerPhone -> 0..(RandSteps - 1) ]
    /\ InitCommon

P_Generate ==
    /\ test = "phone" /\ pc = "p_generate"
    /\ phoneNumber' = generateRandomPhoneNumber(rand)
    /\ Goto("passed")
    /\ UNCHANGED <<test, pageVars, fvfVars, flowVars, err, url, cookieVars, cvrVars, sdoVars, stepOutcome, vrGhost, rand,
                   filled, otpLog, i, checkboxSelected, shots, redirectedUrl, touched>>

NextPhone == P_Generate

SpecPhone == InitPhone /\ [][NextPhone]_vars

-----------------------------------------------------------------------------
(* selectDropdownOption called with any testId *)

InitSdo ==
    /\ test = "sdo" /\ pc = "d_call" /\ inFlight = {}
    /\ file = NoFile /\ now = T0 /\ ctx = {}
    /\ rand = <<>>
    /\ InitCommon

\* lines 43-44: a call selectDropdownOption(page, id, optionText), with the
\* page on any URL of the flow
D_Call ==
    /\ test = "sdo" /\ pc = "d_call"
    /\ \E id \in KnownTestIds \cup {"other"} : EnterSdo(0, id)
    /\ \E u \in {"dashboard_home", "flow"} : url' = u
    /\ UNCHANGED <<test, pageVars, fvfVars, flowVars, err, cookieVars, cvrVars, vrGhost, loginVars>>

NextSdo ==
    \/ D_Call
    \/ S_Ready
    \/ S_OpenDropdown
    \/ S_StrategyA
    \/ S_StrategyB
    \/ S_StrategyC
    \/ S_StrategyD
    \/ S_Settle
    \/ S_CatchPause

SpecSdo == InitSdo /\ [][NextSdo]_vars

-----------------------------------------------------------------------------
(* saveCookies and loadCookies on one snapshot file: saves, the passing of *)
(* time, changes of the context's cookies, and loads, in any order         *)

InitCookies ==
    /\ test = "cookies" /\ pc = "k_idle" /\ inFlight = {}
    /\ file = NoFile /\ now = T0
    /\ ctx \in CookieLists
    /\ rand = <<>>
    /\ InitCommon

\* lines 8-18: saveCookies(page, e) reads the context's cookies and the
\* clock and writes the snapshot with writeFileSync, which replaces the file
K_Save ==
    /\ test = "cookies" /\ pc = "k_idle"
    /\ \E e \in {specificEmail, OtherEmail} :
         /\ file' = saveCookies(ctx, e, now)
         /\ saved' = [ kind |-> "saved", email |-> e, cookies |-> ctx, time |-> now ]
    /\ UNCHANGED <<test, pageVars, fvfVars, flowVars, pc, err, url, inFlight, ctx, now, savedEmail, addCookies, cvrVars,
                   sdoVars, stepOutcome, vrGhost, loginVars>>

\* Date.now() moves on between two calls
K_Elapse ==
    /\ test = "cookies" /\ pc = "k_idle"
    /\ \E a \in Ages : now' = T0 + a /\ now' > now
    /\ UNCHANGED <<test, pageVars, fvfVars, flowVars, pc, err, url, inFlight, file, ctx, savedEmail, addCookies, saved,
                   cvrVars, sdoVars, stepOutcome, vrGhost, loginVars>>

\* the context's cookies change: the application sets or clears cookies, or
\* a later run starts with another context
K_Context ==
    /\ test = "cookies" /\ pc = "k_idle"
    /\ \E c \in CookieLists : c # ctx /\ ctx' = c
    /\ UNCHANGED <<test, pageVars, fvfVars, flowVars, pc, err, url, inFlight, file, now, savedEmail, addCookies, saved,
                   cvrVars, sdoVars, stepOutcome, vrGhost, loginVars>>

\* lines 20-40: a call of loadCookies(page)
K_Load ==
    /\ test = "cookies" /\ pc = "k_idle"
    /\ \E addOk \in BOOLEAN :
         LET r == loadCookies(file, ctx, now, addOk) IN
           /\ savedEmail' = r.ret
           /\ ctx' = r.ctx
           /\ addCookies' = r.add
    /\ pc' = "k_loaded"
    /\ UNCHANGED <<test, pageVars, fvfVars, flowVars, err, url, inFlight, file, now, saved, cvrVars, sdoVars, stepOutcome,
                   vrGhost, loginVars>>

\* the caller has used what loadCookies returned
K_Loaded ==
    /\ test = "cookies" /\ pc = "k_loaded"
    /\ pc' = "k_idle"
    /\ savedEmail' = Null /\ addCookies' = "none"
    /\ UNCHANGED <<test, pageVars, fvfVars, flowVars, err, url, inFlight, file, ctx, now, saved, cvrVars, sdoVars,
                   stepOutcome, vrGhost, loginVars>>

NextCookies == K_Save \/ K_Elapse \/ K_Context \/ K_Load \/ K_Loaded

SpecCookies == InitCookies /\ [][NextCookies]_vars



-----------------------------------------------------------------------------
(* create_vr.spec.ts and login.spec.ts: one function at a time, statement *)
(* by statement                                                           *)

\* what the actions of a function under study leave alone
StudyFrame ==
    UNCHANGED <<test, err, url, cookieVars, cvrVars, sdoVars, fvfVars, flowVars, stepOutcome,
                vrGhost, loginVars>>

\* a function is called on a page that shows pg, its locals being lc; it starts at l
H_Enter(pg, lc, l) ==
    /\ page' = pg /\ locals' = lc /\ acts' = <<>> /\ result' = "running"
    /\ Goto(l)
    /\ StudyFrame

\* the function issues page action a
Act(a) == acts' = Append(acts, a)

\* the function returns
H_Return == result' = "returned" /\ Goto("h_done")

\* the function throws m
H_Throw(m) == result' = m /\ Goto("h_done")

\* the positions of page action a in acts
ActsOf(a) == { n \in 1..Len(acts) : acts[n] = a }

-----------------------------------------------------------------------------
(* create_vr.spec.ts: automateLOAPage, lines 2545-2635 *)

\* line 2562: const otp = '123456', one digit per input
OtpInputs == 0..5

\* line 2545: a call automateLOAPage(page)
L_Call ==
    /\ test = "pages" /\ pc = "h_call"
    /\ H_Enter([ on |-> "loa" ],
               [ fn |-> "automateLOAPage", i |-> 0, succeeded |-> 0,
                 typed |-> [ k \in OtpInputs |-> 0 ] ],
               "loa_open")

\* lines 2630-2633: the catch block logs and rethrows
L_Rethrow(m) == H_Throw(m)

\* lines 2550-2558: click the checkbox, click 'E-Sign using OTP', wait for
\* the OTP inputs
L_Open ==
    /\ pc = "loa_open"
    /\ \/ Goto("loa_method1") /\ UNCHANGED result
       \/ L_Rethrow("LOA controls not found")
    /\ UNCHANGED <<page, locals, acts>>
    /\ StudyFrame

\* one turn of a typing loop (lines 2567-2572 and 2579-2584): click input i,
\* type otp[i], a timer.  The click throws and nothing is typed; or the
\* typing throws, with the digit typed or not; or both resolve.  A throw
\* goes to the label failed, the end of the loop to the label ended.
TypeDigit(method, ended, failed) ==
    LET typedOnce == [ locals EXCEPT !.typed[locals.i] = @ + 1 ]
    IN \/ /\ locals' = [ typedOnce EXCEPT !.i = @ + 1,
                              !.succeeded = IF locals.i = 5 THEN method ELSE 0 ]
          /\ IF locals.i = 5 THEN Goto(ended) ELSE UNCHANGED <<pc, inFlight>>
       \/ /\ \E l \in { locals, typedOnce } : locals' = [ l EXCEPT !.i = 0 ]
          /\ Goto(failed)

\* lines 2566-2575, Method 1: pressSequentially; a throw starts Method 2
L_Method1 ==
    /\ pc = "loa_method1"
    /\ TypeDigit(1, "loa_redirect", "loa_method2")
    /\ UNCHANGED <<page, acts, result>>
    /\ StudyFrame

\* lines 2578-2587, Method 2: keyboard.type, again from input0; a throw
\* starts Method 3
L_Method2 ==
    /\ pc = "loa_method2"
    /\ TypeDigit(2, "loa_redirect", "loa_method3")
    /\ UNCHANGED <<page, acts, result>>
    /\ StudyFrame

\* lines 2590-2611, Method 3: page.evaluate sets the value of each of the
\* six inputs; when it throws the catch block of line 2630 rethrows
L_Method3 ==
    /\ pc = "loa_method3"
    /\ \/ /\ locals' = [ locals EXCEPT !.typed = [ k \in OtpInputs |-> @[k] + 1 ],
                                       !.succeeded = 3 ]
          /\ Goto("loa_redirect")
          /\ UNCHANGED result
       \/ /\ L_Rethrow("page.evaluate failed")
          /\ UNCHANGED locals
    /\ UNCHANGED <<page, acts>>
    /\ StudyFrame

\* lines 2618-2628: a timer, then waitForFunction for the redirect
L_Redirect ==
    /\ pc = "loa_redirect"
    /\ \/ H_Return
       \/ L_Rethrow("waitForFunction timed out")
    /\ UNCHANGED <<page, locals, acts>>
    /\ StudyFrame

-----------------------------------------------------------------------------
(* create_vr.spec.ts: handleReportTransferPage, lines 189-366, and          *)
(* handleVerifyEducationPage, lines 992-1155, which have the same structure *)

ContinueHandlers == { "handleReportTransferPage", "handleVerifyEducationPage" }

\* lines 299-309 and 1093-1103: const buttonSelectors, nine entries
buttonSelectors ==
    << "button[type=submit]", "input[type=submit]", "button:has-text(Next)",
       "button:has-text(Proceed)", "button:has-text(Submit)", ".btn-primary",
       ".continue-btn", "[data-testid*=continue]", "[data-testid*=next]" >>

\* lines 189 and 992: a call of the handler; the Continue button, once it
\* is there, is visible or not, enabled or not
R_Call ==
    /\ test = "pages" /\ pc = "h_call"
    /\ \E h \in ContinueHandlers, v \in BOOLEAN, e \in BOOLEAN :
         H_Enter([ on |-> "continue", isVisible |-> v, isEnabled |-> e ],
                 [ fn |-> h, threw |-> "none", k |-> 1, buttonClicked |-> FALSE ],
                 "r_load")

\* lines 194-227 and 997-1022: waitForLoadState, a timer, the reads that
\* are logged; an error goes to the outer catch (lines 335-364, 1129-1153),
\* which logs and rethrows it
R_Load ==
    /\ pc = "r_load"
    /\ \/ Goto("r_continue") /\ UNCHANGED result
       \/ H_Throw("waitForLoadState timed out")
    /\ UNCHANGED <<page, locals, acts>>
    /\ StudyFrame

\* the inner catch (lines 295 and 1089) takes an error of kind w
R_Caught(w) ==
    /\ locals' = [ locals EXCEPT !.threw = w ]
    /\ Goto("r_alt")
    /\ UNCHANGED <<acts, result>>

\* lines 237-249 and 289-293 (1033-1043 and 1083-1087): waitForSelector,
\* isEnabled, isVisible; visible and enabled: click; otherwise pause, after
\* which the function returns
R_Continue ==
    /\ pc = "r_continue"
    /\ \/ R_Caught("wait")
       \/ /\ page.isVisible /\ page.isEnabled
          /\ \/ Act("click Continue") /\ Goto("r_after") /\ UNCHANGED <<locals, result>>
             \/ R_Caught("click")
       \/ /\ ~(page.isVisible /\ page.isEnabled)
          /\ Act("pause")
          /\ H_Return
          /\ UNCHANGED locals
    /\ UNCHANGED page
    /\ StudyFrame

\* lines 253-287 and 1047-1081, still inside the inner try block: a timer,
\* waitForLoadState('networkidle'), the isVisible reads on the new page
R_AfterClick ==
    /\ pc = "r_after"
    /\ \/ H_Return /\ UNCHANGED <<locals, acts>>
       \/ R_Caught("after")
    /\ UNCHANGED page
    /\ StudyFrame

\* lines 312-325 and 1106-1119: the turn of the loop for buttonSelectors[k]:
\* visible and enabled and clicked, which ends the loop; or not, or an
\* operation throws, and the loop goes on
R_Alternative ==
    /\ pc = "r_alt"
    /\ locals.k <= Len(buttonSelectors)
    /\ \/ /\ Act("click " \o buttonSelectors[locals.k])
          /\ locals' = [ locals EXCEPT !.buttonClicked = TRUE ]
          /\ H_Return
       \/ /\ locals' = [ locals EXCEPT !.k = @ + 1 ]
          /\ UNCHANGED <<pc, inFlight, acts, result>>
    /\ UNCHANGED page
    /\ StudyFrame

\* lines 327-330 and 1121-1124: no alternative was clicked: pause
R_NoButton ==
    /\ pc = "r_alt"
    /\ locals.k > Len(buttonSelectors)
    /\ Act("pause")
    /\ H_Return
    /\ UNCHANGED <<page, locals>>
    /\ StudyFrame

-----------------------------------------------------------------------------
(* create_vr.spec.ts: fillVerificationForm, the mandatory-documents *)
(* checkbox, lines 561-637                                          *)

\* lines 564-572: const checkboxSelectors, seven entries
checkboxSelectors ==
    << "input[type=checkbox]", "[type=checkbox]", "input:has-text(I understand)",
       "label:has-text(I understand) input", ".checkbox input",
       "[data-testid*=checkbox]", "[role=checkbox]" >>

\* line 561: fillVerificationForm reaches let checkboxClicked = false; the
\* checkbox of the page is checked or not
B_Call ==
    /\ test = "pages" /\ pc = "h_call"
    /\ \E c \in BOOLEAN :
         H_Enter([ on |-> "documents", checked |-> c ],
                 [ fn |-> "fillVerificationForm", k |-> 1, checkboxClicked |-> FALSE,
                   sawVisible |-> FALSE ],
                 "b_selector")

\* the turn of the loop is over without a break: the next selector
B_NextSelector(visible) ==
    /\ locals' = [ locals EXCEPT !.k = @ + 1,
                                 !.sawVisible = @ \/ visible ]
    /\ UNCHANGED <<pc, inFlight, page, acts, result>>

\* lines 574-600, the turn of the loop for checkboxSelectors[k]:
\* waitForSelector or isVisible throws, or the element is not visible: next
\* selector; it is visible and isChecked throws: next selector; it is
\* checked: break without an action; it is not: check(), which checks it
\* and breaks, or throws: next selector
B_Selector ==
    /\ pc = "b_selector"
    /\ locals.k <= Len(checkboxSelectors)
    /\ \/ B_NextSelector(FALSE)
       \/ B_NextSelector(TRUE)
       \/ /\ page.checked
          /\ locals' = [ locals EXCEPT !.checkboxClicked = TRUE, !.sawVisible = TRUE ]
          /\ H_Return
          /\ UNCHANGED <<page, acts>>
       \/ /\ ~page.checked
          /\ Act("check")
          /\ page' = [ page EXCEPT !.checked = TRUE ]
          /\ locals' = [ locals EXCEPT !.checkboxClicked = TRUE, !.sawVisible = TRUE ]
          /\ H_Return
    /\ StudyFrame

\* a click on the label or next to the checkbox toggles the checkbox, or
\* lands on an element that is not wired to it
ClickToggles ==
    \E c \in { page.checked, ~page.checked } : page' = [ page EXCEPT !.checked = c ]

\* lines 603-613: no selector set checkboxClicked: click the label text
B_Label ==
    /\ pc = "b_selector"
    /\ locals.k > Len(checkboxSelectors)
    /\ \/ /\ Act("click label")
          /\ ClickToggles
          /\ locals' = [ locals EXCEPT !.checkboxClicked = TRUE ]
          /\ H_Return
       \/ /\ Goto("b_icon")
          /\ UNCHANGED <<page, locals, acts, result>>
    /\ StudyFrame

\* lines 616-626: still not clicked: click near the checkbox icon
B_Icon ==
    /\ pc = "b_icon"
    /\ \/ /\ Act("click icon")
          /\ ClickToggles
          /\ locals' = [ locals EXCEPT !.checkboxClicked = TRUE ]
          /\ H_Return
       \/ /\ Goto("b_pause")
          /\ UNCHANGED <<page, locals, acts, result>>
    /\ StudyFrame

\* lines 629-634: still not clicked: page.pause(), during which the
\* operator checks the box or leaves it; then checkboxClicked = true
B_Pause ==
    /\ pc = "b_pause"
    /\ Act("pause")
    /\ \E c \in { page.checked, TRUE } : page' = [ page EXCEPT !.checked = c ]
    /\ locals' = [ locals EXCEPT !.checkboxClicked = TRUE ]
    /\ H_Return
    /\ StudyFrame

-----------------------------------------------------------------------------
(* create_vr.spec.ts: handleEducationDetailsPage, lines 1161-1387 *)

\* the texts the organization dropdown can show
OrgTexts == { "", "Dry College, Bengaluru, India", "dry college", "Other University" }

\* val.toLowerCase().includes('dry college')
IncludesDryCollege(val) == val \in { "Dry College, Bengaluru, India", "dry college" }

\* lines 1190-1203: the four values read from the dropdown
OrgReads == { "inputValue", "textContent", "innerText", "containerText" }

\* line 1161: a call of handleEducationDetailsPage; the input holds a
\* value, and its container shows a text; an input element has no text
\* content of its own.  page keeps what the dropdown showed at the call.
E_Call ==
    /\ test = "pages" /\ pc = "h_call"
    /\ \E v \in OrgTexts, c \in OrgTexts :
         H_Enter([ on |-> "education", inputValue |-> v, textContent |-> "",
                   innerText |-> "", containerText |-> c ],
                 [ fn |-> "handleEducationDetailsPage", isDryCollegeSelected |-> FALSE,
                   selectionSuccessful |-> FALSE, strategy |-> 0 ],
                 "e_load")

\* lines 1383-1386: the outer catch logs and rethrows
E_Rethrow(m) == H_Throw(m)

\* lines 1166-1174: waitForLoadState, a timer, an isVisible that is logged
E_Load ==
    /\ pc = "e_load"
    /\ \/ Goto("e_read") /\ UNCHANGED result
       \/ E_Rethrow("waitForLoadState timed out")
    /\ UNCHANGED <<page, locals, acts>>
    /\ StudyFrame

\* lines 1188-1222: the four reads inside one try block: all resolve and
\* isDryCollegeSelected is whether one of the non-empty values includes
\* 'dry college'; or one of them throws and the catch block sets it false
E_Read ==
    /\ pc = "e_read"
    /\ \E sel \in { \E r \in OrgReads : page[r] # "" /\ IncludesDryCollege(page[r]), FALSE } :
         /\ locals' = [ locals EXCEPT !.isDryCollegeSelected = sel ]
         /\ Goto(IF sel THEN "e_continue" ELSE "e_open")
    /\ UNCHANGED <<page, acts, result>>
    /\ StudyFrame

\* lines 1231-1244: click the container, fill(''), type 'dry college',
\* timers; an error ends the sequence and is rethrown (lines 1359-1361)
E_Open ==
    /\ pc = "e_open"
    /\ \/ /\ acts' = acts \o <<"click dropdown", "fill dropdown", "type dropdown">>
          /\ locals' = [ locals EXCEPT !.strategy = 1 ]
          /\ Goto("e_strategy")
          /\ UNCHANGED result
       \/ /\ \E n \in 0..2 :
               acts' = acts \o SubSeq(<<"click dropdown", "fill dropdown">>, 1, n)
          /\ E_Rethrow("dropdown not usable")
          /\ UNCHANGED locals
    /\ UNCHANGED page
    /\ StudyFrame

\* what a strategy issues on the dropdown when it succeeds: lines 1255,
\* 1301, 1322-1326, 1342
StrategyAct ==
    << "click option", "click second option", "press keys", "click Bengaluru" >>

\* lines 1250-1349: Strategy locals.strategy, run because no earlier one
\* set selectionSuccessful: it succeeds, or its element is not there or an
\* operation of it throws, which its catch block logs
E_Strategy ==
    /\ pc = "e_strategy"
    /\ locals.strategy <= Len(StrategyAct)
    /\ \/ /\ Act(StrategyAct[locals.strategy])
          /\ locals' = [ locals EXCEPT !.selectionSuccessful = TRUE ]
          /\ Goto("e_continue")
       \/ /\ locals' = [ locals EXCEPT !.strategy = @ + 1 ]
          /\ UNCHANGED <<pc, inFlight, acts>>
    /\ UNCHANGED <<page, result>>
    /\ StudyFrame

\* lines 1351-1354: no strategy succeeded
E_Failed ==
    /\ pc = "e_strategy"
    /\ locals.strategy > Len(StrategyAct)
    /\ E_Rethrow("Unable to select second option from dropdown")
    /\ UNCHANGED <<page, locals, acts>>
    /\ StudyFrame

\* lines 1356-1381: timers; Continue is clicked if it is visible
E_Continue ==
    /\ pc = "e_continue"
    /\ \/ Act("click Continue") /\ H_Return
       \/ H_Return /\ UNCHANGED acts
       \/ E_Rethrow("Continue click failed") /\ UNCHANGED acts
    /\ UNCHANGED <<page, locals>>
    /\ StudyFrame

-----------------------------------------------------------------------------
(* create_vr.spec.ts: handleDegreeDiplomaPage and its helpers, lines *)
(* 2050-2451                                                         *)

\* lines 2063-2090: the sub-steps, in the order of their calls
SubSteps ==
    << "uploadDegreeDocument", "selectGraduationYear", "handleDegreeLevel",
       "selectDepartmentName", "selectCourseName", "fillProgramDuration",
       "selectModeOfStudy", "handleCourseDates" >>

\* the helpers whose body is one try block with a catch that only logs
\* (lines 2116-2186, 2188-2246, 2278-2336, 2339-2397, 2400-2418, 2421-2444)
OptionalFields ==
    { "selectGraduationYear", "handleDegreeLevel", "selectDepartmentName",
      "selectCourseName", "fillProgramDuration", "selectModeOfStudy" }

\* an input value is a sequence of characters, of which the model keeps
\* the blanks and, as one character each, the words
Blank == " "

\* String.prototype.trim(): without the leading and the trailing blanks
RECURSIVE trim(_)
trim(s) ==
    IF s = <<>> THEN s
    ELSE IF Head(s) = Blank THEN trim(Tail(s))
    ELSE IF s[Len(s)] = Blank THEN trim(SubSeq(s, 1, Len(s) - 1))
    ELSE s

\* the values the Degree Level input can hold
FieldValues ==
    { <<>>, <<Blank>>, <<Blank, Blank>>, <<"Select">>, <<Blank, "Select">>,
      <<"Bachelors">>, <<Blank, "Masters", Blank>> }

\* the field counts as empty whatever it holds (a mutant)
FieldIsAlwaysEmpty(fieldValue) == fieldValue \in FieldValues

\* line 2208: !fieldValue || fieldValue.trim() === '' || fieldValue === 'Select'
FieldIsEmpty(fieldValue) ==
    \/ fieldValue = <<>>
    \/ trim(fieldValue) = <<>>
    \/ fieldValue = <<"Select">>

\* line 2050: a call of handleDegreeDiplomaPage; the Degree Level input
\* holds some value
G_Call ==
    /\ test = "pages" /\ pc = "h_call"
    /\ \E v \in FieldValues :
         H_Enter([ on |-> "degree", degreeLevel |-> v ],
                 [ fn |-> "handleDegreeDiplomaPage", step |-> 0, caught |-> "none" ],
                 "g_prepare")

\* lines 2053-2058, before the try block: waitForLoadState('networkidle')
\* and the write of dummy-document.pdf
G_Prepare ==
    /\ pc = "g_prepare"
    /\ \/ /\ locals' = [ locals EXCEPT !.step = 1 ]
          /\ Goto("g_substep")
          /\ UNCHANGED result
       \/ /\ H_Throw("waitForLoadState timed out")
          /\ UNCHANGED locals
    /\ UNCHANGED <<page, acts>>
    /\ StudyFrame

\* the sub-step has returned: the next statement of the try block
G_NextStep ==
    /\ locals' = [ locals EXCEPT !.step = @ + 1 ]
    /\ IF locals.step = Len(SubSteps) THEN Goto("g_save") ELSE UNCHANGED <<pc, inFlight>>
    /\ UNCHANGED result

\* an error reaches the catch block of line 2109
G_Caught(w) ==
    /\ locals' = [ locals EXCEPT !.caught = w ]
    /\ Goto("g_catch")
    /\ UNCHANGED result

\* lines 2063 and 2250-2275, uploadDegreeDocument: the upload, or an error
\* that its catch block logs and rethrows
G_Upload ==
    /\ pc = "g_substep" /\ SubSteps[locals.step] = "uploadDegreeDocument"
    /\ \/ Act("uploadDegreeDocument:uploaded") /\ G_NextStep
       \/ Act("uploadDegreeDocument:threw") /\ G_Caught("uploadDegreeDocument")
    /\ UNCHANGED page
    /\ StudyFrame

\* an optional-field helper rethrows what it caught (a mutant)
G_OptionalFieldRethrows ==
    /\ pc = "g_substep"
    /\ SubSteps[locals.step] \in OptionalFields \ {"handleDegreeLevel"}
    /\ \/ /\ \E o \in {"skipped", "selected"} : Act(SubSteps[locals.step] \o ":" \o o)
          /\ G_NextStep
       \/ /\ Act(SubSteps[locals.step] \o ":failed")
          /\ G_Caught(SubSteps[locals.step])
    /\ UNCHANGED page
    /\ StudyFrame

\* selectGraduationYear, selectDepartmentName, selectCourseName,
\* fillProgramDuration, selectModeOfStudy (lines 2116-2186, 2278-2444): the
\* field is not there and the helper returns; or it makes its selection;
\* or an operation throws, the catch block logs, and the helper returns
G_OptionalField ==
    /\ pc = "g_substep"
    /\ SubSteps[locals.step] \in OptionalFields \ {"handleDegreeLevel"}
    /\ \E o \in {"skipped", "selected", "failed"} : Act(SubSteps[locals.step] \o ":" \o o)
    /\ G_NextStep
    /\ UNCHANGED page
    /\ StudyFrame

\* what handleDegreeLevel can issue on an empty field: the click that opens
\* the dropdown (line 2212), then the click on Bachelors (line 2222) or,
\* that failing, on the first menu item (line 2230); an operation that
\* throws ends the sequence (catch of line 2241)
DegreeLevelClicks ==
    { <<>>,
      <<"click Degree Level">>,
      <<"click Degree Level", "click Bachelors">>,
      <<"click Degree Level", "click first menu item">> }

\* handleDegreeLevel, lines 2188-2246: the field is not visible, or
\* isVisible or inputValue throws: nothing is issued; the field is empty:
\* the selection; the field is filled: nothing is issued
G_DegreeLevel ==
    /\ pc = "g_substep" /\ SubSteps[locals.step] = "handleDegreeLevel"
    /\ \/ UNCHANGED acts
       \/ /\ FieldIsEmpty(page.degreeLevel)
          /\ \E c \in DegreeLevelClicks : acts' = acts \o c
    /\ G_NextStep
    /\ UNCHANGED page
    /\ StudyFrame

\* handleCourseDates, lines 2447-2451: page.pause()
G_CourseDates ==
    /\ pc = "g_substep" /\ SubSteps[locals.step] = "handleCourseDates"
    /\ Act("pause")
    /\ G_NextStep
    /\ UNCHANGED page
    /\ StudyFrame

\* lines 2097-2107: a timer; Save and Continue is clicked if it is visible,
\* then waitForLoadState
G_Save ==
    /\ pc = "g_save"
    /\ \/ Act("click Save and Continue") /\ H_Return /\ UNCHANGED locals
       \/ H_Return /\ UNCHANGED <<acts, locals>>
       \/ /\ \E c \in { <<>>, <<"click Save and Continue">> } : acts' = acts \o c
          /\ G_Caught("save")
    /\ UNCHANGED page
    /\ StudyFrame

\* lines 2109-2113: the catch block: page.pause(), then the function ends
G_Catch ==
    /\ pc = "g_catch"
    /\ Act("pause")
    /\ H_Return
    /\ UNCHANGED <<page, locals>>
    /\ StudyFrame

-----------------------------------------------------------------------------
(* login.spec.ts: selectDropdownOption, lines 23-61 *)

\* the dropdowns it is called for (lines 153 and 176) and the values their
\* input can hold when line 55 reads it
LoginTestIds == { "nationality", "profession" }
InputValues  == { "", "Select nationality", "Select profession", "Select", "India" }

\* the selection counts as made unless the input is empty (a mutant)
ValueRejectedOnlyEmpty(inputValue, id) == inputValue = "" /\ id \in LoginTestIds

\* line 56: inputValue === '' || inputValue === `Select ${testId}`
ValueRejected(inputValue, id) ==
    \/ inputValue = ""
    \/ inputValue = "Select " \o id

\* line 23: a call selectDropdownOption(page, testId, optionText, selectFirst)
LS_Call ==
    /\ test = "pages" /\ pc = "h_call"
    /\ \E id \in LoginTestIds, text \in {Null, "India"}, first \in BOOLEAN :
         H_Enter([ on |-> "dropdown" ],
                 [ fn |-> "selectDropdownOption", testId |-> id, optionText |-> text,
                   selectFirst |-> first, inputValue |-> Null ],
                 "ls_open")

\* lines 30-37: click the dropdown, a timer, wait for the menu; nothing
\* catches an error
LS_Open ==
    /\ pc = "ls_open"
    /\ \/ Act("click dropdown") /\ Goto("ls_select") /\ UNCHANGED result
       \/ /\ \E c \in { <<>>, <<"click dropdown">> } : acts' = acts \o c
          /\ H_Throw("Timeout exceeded")
    /\ UNCHANGED <<page, locals>>
    /\ StudyFrame

\* lines 39-49: selectFirst: click the first menu item; else, with an
\* optionText: click the item with that text; else nothing
LS_Select ==
    /\ pc = "ls_select"
    /\ \/ /\ IF locals.selectFirst THEN Act("click first menu item")
             ELSE IF locals.optionText # Null THEN Act("click menu item with text")
             ELSE UNCHANGED acts
          /\ Goto("ls_verify")
          /\ UNCHANGED result
       \/ /\ locals.selectFirst \/ locals.optionText # Null
          /\ H_Throw("Timeout exceeded")
          /\ UNCHANGED acts
    /\ UNCHANGED <<page, locals>>
    /\ StudyFrame

\* lines 52-60: a timer, the read of the input's value, the test of line
\* 56, the return of the value
LS_Verify ==
    /\ pc = "ls_verify"
    /\ \/ \E v \in InputValues :
            /\ locals' = [ locals EXCEPT !.inputValue = v ]
            /\ IF ValueRejected(v, locals.testId)
               THEN H_Throw("Failed to select option from " \o locals.testId \o " dropdown")
               ELSE H_Return
       \/ H_Throw("Timeout exceeded") /\ UNCHANGED locals
    /\ UNCHANGED <<page, acts>>
    /\ StudyFrame

-----------------------------------------------------------------------------
(* The functions under study, each called on any page it can meet *)

InitPages ==
    /\ test = "pages" /\ pc = "h_call" /\ inFlight = {}
    /\ file = NoFile /\ now = T0 /\ ctx = {}
    /\ rand = <<>>
    /\ InitCommon

NextPages ==
    \/ L_Call
    \/ B_Call
    \/ B_Selector
    \/ B_Label
    \/ B_Icon
    \/ B_Pause
    \/ E_Call
    \/ E_Load
    \/ E_Read
    \/ E_Open
    \/ E_Strategy
    \/ E_Failed
    \/ E_Continue
    \/ G_Call
    \/ G_Prepare
    \/ G_Upload
    \/ G_OptionalField
    \/ G_DegreeLevel
    \/ G_CourseDates
    \/ G_Save
    \/ G_Catch
    \/ LS_Call
    \/ LS_Open
    \/ LS_Select
    \/ LS_Verify
    \/ R_Call
    \/ R_Load
    \/ R_Continue
    \/ R_AfterClick
    \/ R_Alternative
    \/ R_NoButton
    \/ L_Open
    \/ L_Method1
    \/ L_Method2
    \/ L_Method3
    \/ L_Redirect

SpecPages == InitPages /\ [][NextPages]_vars

-----------------------------------------------------------------------------
(* Properties *)

IsPrefix(a, b) == Len(a) <= Len(b) /\ \A n \in 1..Len(a) : a[n] = b[n]

ThrownBy(s) ==
    CASE s = "startNewVerification" -> "Start New Verification button not found"
      [] s = "bahrain" -> "Could not select Bahrain after trying multiple methods"
      [] s = "nhra"    -> "Could not select NHRA after trying multiple methods"

\* where each of them stands between its last failure and its throw
DebugLabel(s) ==
    CASE s = "startNewVerification" -> "c_start_links"
      [] s = "bahrain" -> "c_bah_debug"
      [] s = "nhra"    -> "c_nhra_debug"

C2_LoadCookiesWithin24h ==
    [][ (pc = "t_load" /\ pc' # "t_load") =>
          LET fresh == file.kind = "snapshot" /\ now - file.timestamp <= 24 * 60 * 60 * 1000
          IN  /\ savedEmail' # Null =>
                   fresh /\ savedEmail' = file.email /\ ctx' = ctx \cup file.cookies
              /\ ctx' # ctx => fresh /\ savedEmail' # Null
              /\ (file.kind = "snapshot" /\ now - file.timestamp > 24 * 60 * 60 * 1000) =>
                   savedEmail' = Null /\ ctx' = ctx ]_vars

\* C2, witness: a snapshot exactly 24 hours old was loaded
C2_Witness ==
    /\ test = "create_vr" /\ pc = "t_goto_dash"
    /\ file.kind = "snapshot" /\ now - file.timestamp = 24 * 60 * 60 * 1000
    /\ savedEmail = file.email
    /\ file.cookies \subseteq ctx

\* C3 as stated: once the logged-in check of the cookie path has passed, the
\* run executes no operation of the fresh-login flow.
C3_NoFreshLoginAfterCheck ==
    loginChecked => freshOps = {}

PageHandlers ==
    << "fillVerificationForm", "handleReportTransferPage", "handleVerifyEducationPage",
       "handleEducationDetailsPage", "handlePricingEstimatePage", "handleCrlPage",
       "handleUploadDocumentIdentityPage", "handleDegreeDiplomaPage",
       "addAdditionalDocument", "applicationSummary", "automateLOAPage",
       "pricingSummary", "paypalPg", "handlePaymentStatusPage",
       "printVerificationSummary" >>

IsPageHandler(h) == \E n \in 1..Len(PageHandlers) : PageHandlers[n] = h

CalledPageHandlers == SelectSeq(handlers, IsPageHandler)

\* C5: the page handlers a run of createVerificationRequest has called are
\* a prefix of the listed order, each called once, and a run that completes
\* has called them all.
C5_HandlerOrder ==
    /\ IsPrefix(CalledPageHandlers, PageHandlers)
    /\ (test = "create_vr" /\ pc = "passed") => CalledPageHandlers = PageHandlers

\* C5, witness: a run of createVerificationRequest completed
C5_Witness ==
    /\ test = "create_vr" /\ pc = "passed"
    /\ Len(CalledPageHandlers) = 15

\* the fallback chain of C6: A, the seven selectors of B, C, D
Chain ==
    << <<"A", 0>>, <<"B", 1>>, <<"B", 2>>, <<"B", 3>>, <<"B", 4>>, <<"B", 5>>,
       <<"B", 6>>, <<"B", 7>>, <<"C", 0>>, <<"D", 0>> >>

C7_SnapshotOnlyWhenVerified ==
    wrote => verified # "failed"

ExpectedOtpOps ==
    << <<"click", 0>>, <<"press", 1>>, <<"click", 1>>, <<"press", 2>>,
       <<"click", 2>>, <<"press", 3>>, <<"click", 3>>, <<"press", 4>>,
       <<"click", 4>>, <<"press", 5>>, <<"click", 5>>, <<"press", 6>>,
       <<"waitRedirect", 0>> >>

\* C9: for i = 0..5 in ascending order the i-th input is clicked and then
\* the i-th digit of 123456 is pressed once; the wait for the redirect
\* starts only after all six digits were pressed.
C9_OtpEntryOrder ==
    test = "login" => IsPrefix(otpLog, ExpectedOtpOps)

\* C9, witness: the wait for the redirect has started
C9_Witness ==
    test = "login" /\ Len(otpLog) = 13

C11_AtMostOneCall ==
    cvrCalls <= 1

\* C12 as stated: when the snapshot that was loaded belongs to another email
\* than specificEmail, none of its cookies is in the context afterwards.
C12_NoForeignCookies ==
    (test = "create_vr" /\ pc # "t_load" /\ ~wrote
       /\ file.kind = "snapshot" /\ file.email # specificEmail) =>
        file.cookies \cap ctx = {}

\* C13: loadCookies never throws (the step that calls it always goes on to
\* one of the two branches of line 377, with no error); it returns null
\* when the file is missing or not valid JSON or addCookies threw, and a
\* non-null email only when addCookies completed.
C13_LoadCookiesNeverThrows ==
    [][ (test = "create_vr" /\ pc = "t_load" /\ pc' # "t_load") =>
          /\ pc' \in {"t_goto_dash", "f_goto"}
          /\ err' = "none"
          /\ (file = NoFile \/ file = Corrupt \/ addCookies' = "threw") => savedEmail' = Null
          /\ savedEmail' # Null => addCookies' = "ok" ]_vars

\* C13, witness: addCookies threw on a fresh snapshot of the expected email
\* and loadCookies returned null
C13_Witness ==
    /\ test = "create_vr" /\ pc = "f_goto"
    /\ addCookies = "threw" /\ savedEmail = Null
    /\ file.kind = "snapshot" /\ file.email = specificEmail

\* a loadCookies step made at most 24 hours after the last saveCookies
LoadWithin24h ==
    /\ test = "cookies" /\ pc = "k_idle" /\ pc' = "k_loaded"
    /\ saved # NotSaved /\ now - saved.time <= 24 * 60 * 60 * 1000

SdoReturned == test = "sdo" /\ pc = "passed"

C17_WitnessStartFailed ==
    /\ selection["startNewVerification"] = "failed"
    /\ cvrErr = "Start New Verification button not found"

\* the handlers createVerificationRequest calls before paypalPg
BeforePaypal ==
    { PageHandlers[n] : n \in 1..12 } \cup { "saveAndContinueIdentity" }

C18_WitnessThrown ==
    /\ cvrErr = "automateLOAPage"
    /\ pc = "t_check_url"
    /\ payment = {}

\* the positions of event e in the log of the identity page
Positions(e) == { n \in 1..Len(idLog) : idLog[n] = e }

\* C19: on the identity page, a page.pause() occurs between the end of
\* fillIdentityFormDetails and the first click issued by
\* saveAndContinueIdentity.
C19_PauseBeforeFirstClick ==
    \A k \in Positions("sac_click") :
        (\A m \in Positions("sac_click") : k <= m)
            => \E f \in Positions("fill_end") :
                   \E p \in Positions("pause") \cup Positions("sac_pause") :
                       f < p /\ p < k

\* C20: saveAndContinueIdentity is executed at most once per call of
\* createVerificationRequest, and at most one Save-and-Continue (or
\* alternative button) click is issued.
C20_SaveAndContinueOnce ==
    /\ Cardinality(Positions("sac_enter")) <= 1
    /\ Cardinality(Positions("sac_click")) <= 1


\* C21: in automateLOAPage, whichever OTP entry method succeeds, each of
\* input0..input5 has received its digit exactly once: a digit typed by a
\* method that failed part-way is not typed again by the next method.
C21_EachDigitOnce ==
    (locals.fn = "automateLOAPage" /\ locals.succeeded # 0)
        => \A k \in OtpInputs : locals.typed[k] = 1


\* the alternative buttons clicked
AltClicks == { n \in 1..Len(acts) : acts[n] \notin {"click Continue", "pause"} }

\* C22: handleReportTransferPage and handleVerifyEducationPage click
\* Continue only when it is visible and enabled, and pause without clicking
\* when it is not; the alternative selectors are tried only when waiting
\* for or clicking Continue threw, in listed order up to the first one
\* clicked; and in that branch page.pause() is invoked exactly when no
\* alternative button was clicked.
C22_ContinueOrAlternative ==
    locals.fn \in ContinueHandlers =>
        /\ ActsOf("click Continue") # {} => page.isVisible /\ page.isEnabled
        /\ (result = "returned" /\ ~(page.isVisible /\ page.isEnabled)
              /\ locals.threw = "none")
             => acts = <<"pause">>
        /\ pc = "r_alt" => locals.threw \in {"wait", "click"}
        /\ locals.threw # "none" => /\ Cardinality(AltClicks) <= 1
                                    /\ locals.buttonClicked <=> AltClicks # {}
        /\ (locals.threw # "none" /\ result = "returned")
             => (ActsOf("pause") # {} <=> ~locals.buttonClicked)

\* the part of C22 that does not depend on what threw
C22_ClickAndPause ==
    locals.fn \in ContinueHandlers =>
        /\ ActsOf("click Continue") # {} => page.isVisible /\ page.isEnabled
        /\ locals.threw # "none" => /\ Cardinality(AltClicks) <= 1
                                    /\ locals.buttonClicked <=> AltClicks # {}
        /\ (locals.threw # "none" /\ result = "returned")
             => (ActsOf("pause") # {} <=> ~locals.buttonClicked)


\* C23: in fillVerificationForm the mandatory-documents checkbox is never
\* toggled from checked to unchecked: on a checkbox found checked no check
\* or click is issued, and the label click and the icon click run only if
\* no checkbox selector produced a visible checkbox.
C23_NeverUnchecked ==
    /\ [][locals.fn = "fillVerificationForm" => ~(page.checked /\ ~page'.checked)]_vars
    /\ []((locals.fn = "fillVerificationForm"
             /\ (ActsOf("click label") # {} \/ ActsOf("click icon") # {}))
            => ~locals.sawVisible)

\* C23, the part that holds: a selector that finds the checkbox checked
\* issues no action on it, and check() is issued only on an unchecked box
C23_CheckedLeftAlone ==
    [][(pc = "b_selector" /\ locals.k <= Len(checkboxSelectors) /\ page.checked)
          => /\ acts' = acts
             /\ page' = page]_vars


\* the actions issued on the organization dropdown
DropdownActs == { n \in 1..Len(acts) : acts[n] # "click Continue" }

\* C24: handleEducationDetailsPage issues no click, fill or key press on
\* the organization dropdown when 'dry college' already appears in one of
\* the four values read from it; otherwise the strategies are tried in
\* order, and the function throws 'Unable to select second option from
\* dropdown', without a click on Continue, exactly when all four failed.
C24_UniversityIdempotent ==
    locals.fn = "handleEducationDetailsPage" =>
        /\ (\E r \in OrgReads : IncludesDryCollege(page[r])) => DropdownActs = {}
        /\ result = "Unable to select second option from dropdown"
             <=> (pc = "h_done" /\ locals.strategy > Len(StrategyAct))
        /\ result = "Unable to select second option from dropdown"
             => ActsOf("click Continue") = {}

\* C24, the part that holds: nothing is issued on the dropdown when
\* isDryCollegeSelected is true, at most one strategy succeeds, and the
\* error is thrown exactly when all four failed
C24_SelectedLeftAlone ==
    locals.fn = "handleEducationDetailsPage" =>
        /\ locals.isDryCollegeSelected => DropdownActs = {}
        /\ Cardinality({ n \in DropdownActs :
                           \E s \in 1..Len(StrategyAct) : acts[n] = StrategyAct[s] }) <= 1
        /\ result = "Unable to select second option from dropdown"
             <=> (pc = "h_done" /\ locals.strategy > Len(StrategyAct))
        /\ result = "Unable to select second option from dropdown"
             => ActsOf("click Continue") = {}


\* C25: handleDegreeDiplomaPage never throws; an error from a sub-step
\* (the rethrow of uploadDegreeDocument) skips the remaining sub-steps and
\* the Save and Continue click, invokes page.pause() once, and the function
\* returns normally.
C25_DegreePageNeverThrows ==
    locals.fn = "handleDegreeDiplomaPage" =>
        /\ result \in {"running", "returned"}
        /\ (pc = "h_done" /\ locals.caught = "uploadDegreeDocument")
             => /\ acts = <<"uploadDegreeDocument:threw", "pause">>
                /\ result = "returned"

\* C25, the part that holds: once the try block of line 2061 is entered
\* the function does not throw, and the rethrow of uploadDegreeDocument
\* leads to one pause and a normal return with nothing else issued
C25_NoThrowInsideTry ==
    locals.fn = "handleDegreeDiplomaPage" =>
        /\ locals.step >= 1 => result \in {"running", "returned"}
        /\ (pc = "h_done" /\ locals.caught = "uploadDegreeDocument")
             => /\ acts = <<"uploadDegreeDocument:threw", "pause">>
                /\ result = "returned"

\* C26: an optional-field helper of the degree page never throws and never
\* invokes page.pause(): after it, whatever happened inside, the function
\* stands at the next sub-step, with no pause issued and no error caught.
C26_OptionalFieldsGoOn ==
    [][(pc = "g_substep" /\ SubSteps[locals.step] \in OptionalFields)
         => /\ pc' = "g_substep"
            /\ result' = "running"
            /\ locals' = [ locals EXCEPT !.step = @ + 1 ]
            /\ \A n \in (Len(acts) + 1)..Len(acts') : acts'[n] # "pause"]_vars

\* two helpers failed or skipped their field and the next one is processed
C26_Witness ==
    /\ pc = "g_substep" /\ SubSteps[locals.step] = "selectCourseName"
    /\ acts = <<"uploadDegreeDocument:uploaded", "selectGraduationYear:failed",
                "selectDepartmentName:skipped">>
    /\ result = "running"

\* C27: handleDegreeLevel issues no click when the field's value is
\* non-empty after trimming and is not 'Select'; what it issues otherwise
\* is the click on the dropdown and then the click on Bachelors or else on
\* the first menu item.
C27_PrefilledDegreeLevelKept ==
    [][(pc = "g_substep" /\ SubSteps[locals.step] = "handleDegreeLevel")
         => /\ (trim(page.degreeLevel) # <<>> /\ page.degreeLevel # <<"Select">>)
                 => acts' = acts
            /\ \E c \in DegreeLevelClicks : acts' = acts \o c
            /\ page' = page]_vars

\* handleDegreeLevel has returned without a click on a pre-filled field
C27_Witness ==
    /\ pc = "g_substep" /\ SubSteps[locals.step] = "selectDepartmentName"
    /\ page.degreeLevel = <<Blank, "Masters", Blank>>
    /\ ActsOf("click Degree Level") = {}

\* handleDegreeLevel has selected Bachelors on a field that holds blanks
C27_WitnessSelected ==
    /\ pc = "g_substep" /\ SubSteps[locals.step] = "selectDepartmentName"
    /\ page.degreeLevel = <<Blank, Blank>>
    /\ ActsOf("click Bachelors") # {}


\* the menu items selectDropdownOption clicked
MenuClicks == { n \in 1..Len(acts) : acts[n] # "click dropdown" }

\* what C30 says of the clicks: without selectFirst and without optionText
\* no menu item is clicked; with selectFirst the first menu item is clicked,
\* once and whatever optionText is, before the value is read
C30_Clicks ==
    /\ (~locals.selectFirst /\ locals.optionText = Null) => MenuClicks = {}
    /\ locals.selectFirst =>
         /\ \A n \in MenuClicks : acts[n] = "click first menu item"
         /\ Cardinality(MenuClicks) <= 1
         /\ (pc = "ls_verify" \/ result = "returned") => Cardinality(MenuClicks) = 1

\* C30 as stated: selectDropdownOption of login.spec.ts ends either by
\* returning the input's value, non-empty and not the placeholder, or by
\* throwing 'Failed to select option from <testId> dropdown'.
C30_ReturnsOrFails ==
    locals.fn = "selectDropdownOption" =>
        /\ pc = "h_done" =>
             \/ /\ result = "returned"
                /\ locals.inputValue \notin {"", "Select " \o locals.testId, Null}
             \/ result = "Failed to select option from " \o locals.testId \o " dropdown"
        /\ C30_Clicks

\* C30, amended: it returns the input's value, non-empty and not the
\* placeholder; or it throws 'Failed to select option from <testId>
\* dropdown', exactly when the value read is empty or the placeholder; or
\* it throws the error of the page operation that failed.
C30_ReturnsValueOrThrows ==
    locals.fn = "selectDropdownOption" =>
        /\ pc = "h_done" =>
             \/ /\ result = "returned"
                /\ locals.inputValue \notin {"", "Select " \o locals.testId, Null}
             \/ /\ result = "Failed to select option from " \o locals.testId \o " dropdown"
                /\ locals.inputValue \in {"", "Select " \o locals.testId}
             \/ /\ result = "Timeout exceeded"
                /\ locals.inputValue = Null
        /\ C30_Clicks

\* the first menu item was clicked and the value read is returned
C30_Witness ==
    /\ locals.fn = "selectDropdownOption" /\ result = "returned"
    /\ locals.selectFirst /\ locals.optionText = "India"
    /\ locals.inputValue = "Select"
    /\ acts = <<"click dropdown", "click first menu item">>

\* nothing was clicked in the menu and the placeholder was read
C30_WitnessFailed ==
    /\ locals.fn = "selectDropdownOption"
    /\ ~locals.selectFirst /\ locals.optionText = Null
    /\ result = "Failed to select option from profession dropdown"
    /\ acts = <<"click dropdown">>


\* C28: in login.spec.ts terms-checkbox method k+1 runs only if methods
\* 1..k left checkboxSelected false, and the Continue button of the
\* applicant-details form is clicked only in a run in which
\* checkboxSelected became true.
C28_ContinueOnlyWhenChecked ==
    test = "login" =>
        /\ \A k \in 2..Len(CheckboxLabels) : pc = CheckboxLabels[k] => ~checkboxSelected
        /\ "continue" \in touched => checkboxSelected

\* C28, the part that holds: a method runs only while checkboxSelected is
\* false, and without it the screenshot is taken before Continue is waited for
C28_MethodsInOrder ==
    test = "login" =>
        /\ \A k \in 2..Len(CheckboxLabels) : pc = CheckboxLabels[k] => ~checkboxSelected
        /\ ("continue" \in touched /\ ~checkboxSelected)
             => "checkbox-selection-failed.png" \in shots

\* C29: in login.spec.ts the phone number reported at the end of the run
\* (the value of phoneNumber, lines 376 and 400) is the number that was
\* last filled into the phone field, and it has 10 digits.
C29_ReportedPhoneIsFilled ==
    (test = "login" /\ pc \in {"l_final", "passed"})
        => /\ phoneNumber = filled
           /\ Len(filled) = 10

=============================================================================
